---- MODULE Spec2Model ----
(***************************************************************************)
(* Verification model of yuriks/smded: the tile texture cache, the overlay *)
(* layout resolver, the SNES colour expansion and the 4bpp tile decoder.   *)
(* Each part is a state machine over its own variables; the variables of   *)
(* the other parts stay at their idle values.                              *)
(***************************************************************************)
EXTENDS Integers, Sequences, FiniteSets, TLC

VARIABLES
    \* ---- TileTextureCache (src/ui/tile_view/cache.rs) ----
    update_counter,   \* u32, kept as <<high 16 bits, low 16 bits>>
    entries,          \* HashMap<TileCacheKey, (u32, TextureHandle)>
    calls,            \* history: per key, requests and compute_fn runs since the last update
    idle,             \* history: per key, update calls since its last get/insert
    last,             \* history: the last texture request and what it returned
    nGets,            \* history: number of texture requests so far
    nUpdates,         \* history: number of update calls so far
    \* ---- OverlaidLayout (src/tileset.rs) ----
    layout,           \* OverlaidLayout under construction
    selected,         \* Option: the arguments of detect_sources_layout
    loaded,           \* Option: the LoadedTilesetLayout it returned
    lookupArg,        \* Option<usize>: the index of the last lookup
    lookupRes,        \* Option<(Ref, usize)>: its result
    rangeRes,         \* <<"unset">> or <<"set", Option<(usize, usize)>>>
    \* ---- SnesColor (src/gfx.rs) ----
    color,            \* SnesColor(u16)
    rgb8,             \* Option<[u8; 3]>: as_rgb_8bpc(color)
    \* ---- Snes4BppTile (src/gfx.rs) ----
    tile,             \* [u8; 32] as a sequence indexed 1..32
    images,           \* per [h_flip, v_flip] decoded so far: the 8x8 pixels written
    \* ---- Snes4BppTile over a drawn-on image (src/gfx.rs) ----
    drawn,            \* Option: the last write over Backdrop (how it was called, the pixels)
    \* ---- BlockTilemapModel (src/ui/tile_view.rs) ----
    blocks,           \* the block grid: dimensions and Option<LevelDataEntry> per cell
    tiletable,        \* Vec<TiletableEntry>, each entry four TilemapEntry words
    cell,             \* Option<(x, y)>: the arguments of the last get
    subtile,          \* Option<TilemapEntry>: what it returned
    \* ---- tiletable_to_image (src/gfx.rs) ----
    source,           \* the Tileset composited from: palette, gfx and tiletable
    grid,             \* the GridModel of blocks: dimensions and cells
    composed,         \* Option: what tiletable_to_image returned
    \* ---- Snes4BppTile::tiles_to_image (src/gfx.rs) ----
    sheetTiles,       \* &[Snes4BppTile]: the tiles composited
    sheetPalette,     \* &[SnesColor; 16]: the palette line
    perRow,           \* usize: tiles_per_row
    sheet,            \* Option: what tiles_to_image returned
    \* ---- Palette (src/gfx.rs) ----
    colors,           \* Palette.0, a Vec<SnesColor>
    truncated,        \* Option: the last truncate_checked (palette before, new_len, result)
    \* ---- TilemapEntry construction (src/project.rs) ----
    tilemapEntry, \* Option<TilemapEntry>: the entry built so far
    made,             \* Option: the last for_tile or with_palette (argument, entry before, panic)
    \* ---- HexValue::from_str (src/hex_types.rs) ----
    text,             \* &str: the string given to HexValue::from_str, as its characters
    parsed,           \* Option<Result<HexValue, ParseIntError>>: what it returned
    \* ---- Promise (src/ui/promise.rs) ----
    future,           \* Promise::future, Option<F>: the launched future and whether its task has finished
    last_result,      \* Promise::last_result, Option<F::Output>
    ret,              \* Option: the last call on the promise and what it returned
    readyPolls,       \* history: per future, polls of it that returned Poll::Ready
    handed,           \* history: per result, times take_response returned it
    nLaunched,        \* history: futures launched so far
    nSet,             \* history: set_response calls so far
    \* ---- Bit-plane decoding (src/gfx.rs) ----
    planeTile,        \* the Snes4BppTile whose rows are decoded
    decoded,          \* Option: the last decoding call, its argument and its result
    \* ---- Flat preview grids (src/ui/tile_view.rs) ----
    flat,             \* the FullTilesetGfxModel or FullTiletableModel queried
    flatRet,          \* Option: the last call on it and what it returned
    \* ---- Palette import (src/smart_xml.rs, src/gfx.rs) ----
    importArg,        \* the RGB byte triple or the SnesColor converted
    importRet,        \* Option: the result of the conversion
    \* ---- Application (src/main.rs, src/ui/views/startup_dialog.rs) ----
    appState,         \* Application::state: the variant of ApplicationUiState
    dialog,           \* Option: the StartupDialog of NoOpenProject
    loading,          \* Option: the Promise of LoadingProject
    appLast,          \* history: what the last Application::update saw and did
    open_editors,     \* Workspace::open_editors of ProjectLoaded
    showLast          \* history: what the last Workspace::show was given and did

cacheVars == <<update_counter, entries, calls, idle, last, nGets, nUpdates>>
layoutVars == <<layout, selected, loaded, lookupArg, lookupRes, rangeRes>>
colorVars == <<color, rgb8>>
tileVars == <<tile, images>>
drawVars == <<drawn>>
blockVars == <<blocks, tiletable, cell, subtile>>
composeVars == <<source, grid, composed>>
sheetVars == <<sheetTiles, sheetPalette, perRow, sheet>>
paletteVars == <<colors, truncated>>
entryVars == <<tilemapEntry, made>>
hexVars == <<text, parsed>>
promiseVars == <<future, last_result, ret, readyPolls, handed, nLaunched, nSet>>
decodeVars == <<planeTile, decoded>>
flatVars == <<flat, flatRet>>
importVars == <<importArg, importRet>>
appVars == <<appState, dialog, loading, appLast, open_editors, showLast>>
vars == <<cacheVars, layoutVars, colorVars, tileVars, drawVars, blockVars, composeVars, sheetVars, paletteVars, entryVars, hexVars, promiseVars, decodeVars, flatVars, importVars, appVars>>

\* what the operations of one group leave alone: every other group
notCacheVars ==
    <<layoutVars, colorVars, tileVars, drawVars, blockVars, composeVars,
      sheetVars, paletteVars, entryVars, hexVars, promiseVars, decodeVars,
      flatVars, importVars, appVars>>
notLayoutVars ==
    <<cacheVars, colorVars, tileVars, drawVars, blockVars, composeVars,
      sheetVars, paletteVars, entryVars, hexVars, promiseVars, decodeVars,
      flatVars, importVars, appVars>>
notColorVars ==
    <<cacheVars, layoutVars, tileVars, drawVars, blockVars, composeVars,
      sheetVars, paletteVars, entryVars, hexVars, promiseVars, decodeVars,
      flatVars, importVars, appVars>>
notTileVars ==
    <<cacheVars, layoutVars, colorVars, drawVars, blockVars, composeVars,
      sheetVars, paletteVars, entryVars, hexVars, promiseVars, decodeVars,
      flatVars, importVars, appVars>>
notDrawVars ==
    <<cacheVars, layoutVars, colorVars, tileVars, blockVars, composeVars,
      sheetVars, paletteVars, entryVars, hexVars, promiseVars, decodeVars,
      flatVars, importVars, appVars>>
notBlockVars ==
    <<cacheVars, layoutVars, colorVars, tileVars, drawVars, composeVars,
      sheetVars, paletteVars, entryVars, hexVars, promiseVars, decodeVars,
      flatVars, importVars, appVars>>
notComposeVars ==
    <<cacheVars, layoutVars, colorVars, tileVars, drawVars, blockVars,
      sheetVars, paletteVars, entryVars, hexVars, promiseVars, decodeVars,
      flatVars, importVars, appVars>>
notSheetVars ==
    <<cacheVars, layoutVars, colorVars, tileVars, drawVars, blockVars,
      composeVars, paletteVars, entryVars, hexVars, promiseVars,
      decodeVars, flatVars, importVars, appVars>>
notPaletteVars ==
    <<cacheVars, layoutVars, colorVars, tileVars, drawVars, blockVars,
      composeVars, sheetVars, entryVars, hexVars, promiseVars, decodeVars,
      flatVars, importVars, appVars>>
notEntryVars ==
    <<cacheVars, layoutVars, colorVars, tileVars, drawVars, blockVars,
      composeVars, sheetVars, paletteVars, hexVars, promiseVars,
      decodeVars, flatVars, importVars, appVars>>
notHexVars ==
    <<cacheVars, layoutVars, colorVars, tileVars, drawVars, blockVars,
      composeVars, sheetVars, paletteVars, entryVars, promiseVars,
      decodeVars, flatVars, importVars, appVars>>
notPromiseVars ==
    <<cacheVars, layoutVars, colorVars, tileVars, drawVars, blockVars,
      composeVars, sheetVars, paletteVars, entryVars, hexVars, decodeVars,
      flatVars, importVars, appVars>>
notDecodeVars ==
    <<cacheVars, layoutVars, colorVars, tileVars, drawVars, blockVars,
      composeVars, sheetVars, paletteVars, entryVars, hexVars, promiseVars,
      flatVars, importVars, appVars>>
notFlatVars ==
    <<cacheVars, layoutVars, colorVars, tileVars, drawVars, blockVars,
      composeVars, sheetVars, paletteVars, entryVars, hexVars, promiseVars,
      decodeVars, importVars, appVars>>
notImportVars ==
    <<cacheVars, layoutVars, colorVars, tileVars, drawVars, blockVars,
      composeVars, sheetVars, paletteVars, entryVars, hexVars, promiseVars,
      decodeVars, flatVars, appVars>>
notAppVars ==
    <<cacheVars, layoutVars, colorVars, tileVars, drawVars, blockVars,
      composeVars, sheetVars, paletteVars, entryVars, hexVars, promiseVars,
      decodeVars, flatVars, importVars>>

\* Option<T>: None is the empty tuple, Some(v) the one-element tuple.
None == <<>>
Some(v) == <<v>>
IsSome(o) == o # <<>>
Unwrap(o) == o[1]

Min(a, b) == IF a <= b THEN a ELSE b
Max(a, b) == IF a >= b THEN a ELSE b

(***************************************************************************)
(* OverlaidLayout and detect_sources_layout (src/tileset.rs).  A Tileset   *)
(* is the record of what the layout code reads: its handle and the lengths *)
(* of its gfx and tiletable vectors.                                       *)
(***************************************************************************)
MaxEntries == 3
MaxIndex == 16
EntryBases == {0, 5}
EntrySizes == {3, 10}
EntryRefs == {"A", "B"}

OverlaidLayoutEntry(base, size, tileset) ==
    [base |-> base, size |-> size, tileset |-> tileset]

\* the closure with a half-open range: i - e.base < e.size
EntryMatches_exclusive(e, i) == i >= e.base /\ (i - e.base) < e.size

\* the closure of rfind in lookup: |e| i >= e.base && (i - e.base) <= e.size
EntryMatches(e, i) == i >= e.base /\ (i - e.base) <= e.size

\* Iterator::rfind over entries[1..n]: the scan starts at the back
RECURSIVE RFind(_, _, _)
RFind(es, i, n) ==
    IF n = 0 THEN None
    ELSE IF EntryMatches(es[n], i) THEN Some(es[n])
    ELSE RFind(es, i, n - 1)

\* Iterator::find over entries[n..]: the scan starts at the front
RECURSIVE Find(_, _, _)
Find(es, i, n) ==
    IF n > Len(es) THEN None
    ELSE IF EntryMatches(es[n], i) THEN Some(es[n])
    ELSE Find(es, i, n + 1)

\* lookup with find in place of rfind (first registered entry wins)
lookup_find(l, i) ==
    LET found == Find(l, i, 1)
    IN  IF IsSome(found)
        THEN Some(<<Unwrap(found).tileset, i - Unwrap(found).base>>)
        ELSE None

lookup(l, i) ==
    LET found == RFind(l, i, Len(l))
    IN  IF IsSome(found)
        THEN Some(<<Unwrap(found).tileset, i - Unwrap(found).base>>)
        ELSE None

\* Iterator::reduce over the mapped pairs (base, base + size)
RECURSIVE ReducePairs(_, _, _)
ReducePairs(es, n, acc) ==
    IF n > Len(es) THEN acc
    ELSE ReducePairs(es, n + 1,
             <<Min(acc[1], es[n].base), Max(acc[2], es[n].base + es[n].size)>>)

\* valid_range that reduces with the last pair only (no min/max)
valid_range_last(l) ==
    IF Len(l) = 0 THEN None
    ELSE Some(<<l[Len(l)].base, l[Len(l)].base + l[Len(l)].size>>)

valid_range(l) ==
    IF Len(l) = 0 THEN None
    ELSE Some(ReducePairs(l, 2, <<l[1].base, l[1].base + l[1].size>>))

Handle(t) == t.handle

\* map_ref(Tileset::handle): the same list with each reference mapped
map_ref(l) ==
    [n \in 1..Len(l) |-> OverlaidLayoutEntry(l[n].base, l[n].size, Handle(l[n].tileset))]

map_refs(ll) ==
    [gfx |-> map_ref(ll.gfx),
     tiletable |-> map_ref(ll.tiletable),
     palette_source |-> Handle(ll.palette_source)]

Tileset(handle, gfx_len, tiletable_len) ==
    [handle |-> handle, gfx_len |-> gfx_len, tiletable_len |-> tiletable_len]

\* detect_sources_layout with the Ceres test written >= 0x300
detect_sources_layout_ge(selected_sce, selected_cre) ==
    LET is_ceres_tileset == selected_sce.tiletable_len >= 768
        gfx_layout ==
            (IF IsSome(selected_cre)
             THEN <<OverlaidLayoutEntry(640, Unwrap(selected_cre).gfx_len,
                                        Unwrap(selected_cre))>>
             ELSE <<>>)
            \o <<OverlaidLayoutEntry(0, selected_sce.gfx_len, selected_sce)>>
        ttb_layout ==
            (IF IsSome(selected_cre) /\ ~is_ceres_tileset
             THEN <<OverlaidLayoutEntry(0, Unwrap(selected_cre).tiletable_len,
                                        Unwrap(selected_cre))>>
             ELSE <<>>)
            \o <<OverlaidLayoutEntry(IF is_ceres_tileset THEN 0 ELSE 256,
                                     selected_sce.tiletable_len, selected_sce)>>
    IN  [gfx |-> gfx_layout, tiletable |-> ttb_layout, palette_source |-> selected_sce]

\* detect_sources_layout with the SCE gfx entry pushed before the CRE entry
detect_sources_layout_sce_first(selected_sce, selected_cre) ==
    LET is_ceres_tileset == selected_sce.tiletable_len > 768
        gfx_layout ==
            <<OverlaidLayoutEntry(0, selected_sce.gfx_len, selected_sce)>>
            \o (IF IsSome(selected_cre)
                THEN <<OverlaidLayoutEntry(640, Unwrap(selected_cre).gfx_len,
                                           Unwrap(selected_cre))>>
                ELSE <<>>)
        ttb_layout ==
            (IF IsSome(selected_cre) /\ ~is_ceres_tileset
             THEN <<OverlaidLayoutEntry(0, Unwrap(selected_cre).tiletable_len,
                                        Unwrap(selected_cre))>>
             ELSE <<>>)
            \o <<OverlaidLayoutEntry(IF is_ceres_tileset THEN 0 ELSE 256,
                                     selected_sce.tiletable_len, selected_sce)>>
    IN  [gfx |-> gfx_layout, tiletable |-> ttb_layout, palette_source |-> selected_sce]

detect_sources_layout(selected_sce, selected_cre) ==
    LET \* tiletable.len() > 0x300
        is_ceres_tileset == selected_sce.tiletable_len > 768
        gfx_layout ==
            (IF IsSome(selected_cre)
             THEN <<OverlaidLayoutEntry(640, Unwrap(selected_cre).gfx_len,
                                        Unwrap(selected_cre))>>
             ELSE <<>>)
            \o <<OverlaidLayoutEntry(0, selected_sce.gfx_len, selected_sce)>>
        ttb_layout ==
            (IF IsSome(selected_cre) /\ ~is_ceres_tileset
             THEN <<OverlaidLayoutEntry(0, Unwrap(selected_cre).tiletable_len,
                                        Unwrap(selected_cre))>>
             ELSE <<>>)
            \o <<OverlaidLayoutEntry(IF is_ceres_tileset THEN 0 ELSE 256,
                                     selected_sce.tiletable_len, selected_sce)>>
    IN  [gfx |-> gfx_layout, tiletable |-> ttb_layout, palette_source |-> selected_sce]

(***************************************************************************)
(* u32 arithmetic.  A u32 is kept as <<high 16 bits, low 16 bits>> so that *)
(* wrapping_sub and wrapping_add keep their 32-bit width.                  *)
(***************************************************************************)
Half == 2^16
U32(n) == <<n \div Half, n % Half>>
U32Less(a, b) == a[1] < b[1] \/ (a[1] = b[1] /\ a[2] < b[2])
wrapping_sub(a, b) ==
    LET lo == a[2] - b[2]
        borrow == IF lo < 0 THEN 1 ELSE 0
    IN  <<(a[1] - b[1] - borrow) % Half, lo % Half>>
\* u32::saturating_add: stays at u32::MAX instead of wrapping
saturating_add(a, b) ==
    LET lo == a[2] + b[2]
        hi == a[1] + b[1] + (lo \div Half)
    IN  IF hi >= Half THEN <<Half - 1, Half - 1>> ELSE <<hi, lo % Half>>
wrapping_add(a, b) ==
    LET lo == a[2] + b[2]
    IN  <<(a[1] + b[1] + (lo \div Half)) % Half, lo % Half>>

(***************************************************************************)
(* TileTextureCache (src/ui/tile_view/cache.rs) and the two texture        *)
(* requests that build its keys (src/ui/tile_view.rs).                     *)
(***************************************************************************)
MaxGets == 2
MaxUpdates == 17
MAX_AGE == 15

\* The tilesets of the loaded project: an SCE with more than 0x300 tiletable
\* entries (loaded the Ceres way) and two CREs.
SceTilesets == {Tileset("sce", 768, 1024)}
CreTilesets == {Tileset("cre1", 384, 256), Tileset("cre2", 384, 256)}
PaletteLines == {0, 1}
\* update_counter values the cache can have when it is empty
StartCounters == {<<0, 0>>, <<Half - 1, Half - 3>>}

\* TileCacheKey::VramLayoutGfx { layout, palette_line }
VramLayoutGfx(l, palette_line) ==
    [variant |-> "VramLayoutGfx", layout |-> l, palette_line |-> palette_line]
\* TileCacheKey::VramLayoutTtb { layout }
VramLayoutTtb(l) ==
    [variant |-> "VramLayoutTtb", layout |-> l]

\* What a texture was rendered from: the layouts its closure reads and the
\* palette line.  Two textures are the same image when these agree.
Texture(gfx_layout, ttb_layout, palette_line) ==
    [gfx |-> gfx_layout, ttb |-> ttb_layout, palette_line |-> palette_line]

\* get that returns the value of a present entry and leaves its last_use
cache_get_unstamped(es, counter, key) ==
    IF key \in DOMAIN es
    THEN [entries |-> es, value |-> Some(es[key].value)]
    ELSE [entries |-> es, value |-> None]

\* get: stamps last_use of a present entry and returns its value
cache_get(es, counter, key) ==
    IF key \in DOMAIN es
    THEN [entries |-> [es EXCEPT ![key].last_use = counter],
          value |-> Some(es[key].value)]
    ELSE [entries |-> es, value |-> None]

\* insert that overwrites nothing and stores nothing
cache_insert_dropped(es, counter, key, value) ==
    [entries |-> es, value |-> value]

\* insert: entry(key).and_modify(stamp).or_insert((counter, value))
cache_insert(es, counter, key, value) ==
    IF key \in DOMAIN es
    THEN [entries |-> [es EXCEPT ![key].last_use = counter],
          value |-> es[key].value]
    ELSE [entries |-> [k \in DOMAIN es \cup {key} |->
                          IF k = key THEN [last_use |-> counter, value |-> value]
                          ELSE es[k]],
          value |-> value]

\* get_or_insert_with(ctx, key, f): `computed` is what f(ctx, &key) returns;
\* `ran` tells whether f was invoked.
get_or_insert_with(es, counter, key, computed) ==
    LET cached == cache_get(es, counter, key)
        stored == cache_insert(cached.entries, counter, key, computed)
    IN  IF IsSome(cached.value)
        THEN [entries |-> cached.entries, value |-> Unwrap(cached.value), ran |-> FALSE]
        ELSE [entries |-> stored.entries, value |-> stored.value, ran |-> TRUE]

\* retain that keeps every entry
retained_always(last_use, counter) == TRUE

\* the closure of retain in update: last_use.wrapping_sub(update_counter) < MAX_AGE
retained(last_use, counter) ==
    U32Less(wrapping_sub(last_use, counter), U32(MAX_AGE))

\* CacheTrait::update
cache_update(es, counter) ==
    [entries |-> [k \in {k \in DOMAIN es : retained(es[k].last_use, counter)} |-> es[k]],
     update_counter |-> wrapping_add(counter, U32(1))]

EmptyMap == [k \in {} |-> 0]

CacheInit ==
    /\ update_counter \in StartCounters
    /\ entries = EmptyMap
    /\ calls = EmptyMap
    /\ idle = EmptyMap
    /\ last = None
    /\ nGets = 0
    /\ nUpdates = 0

\* One texture request through the cache: the new entries, what the caller
\* receives, and the history the request leaves.
Request(key, wanted) ==
    LET r == get_or_insert_with(entries, update_counter, key, wanted)
        old == IF key \in DOMAIN calls THEN calls[key]
               ELSE [requests |-> 0, computes |-> 0]
    IN  [entries |-> r.entries,
         calls |-> [k \in DOMAIN calls \cup {key} |->
                       IF k = key
                       THEN [requests |-> old.requests + 1,
                             computes |-> old.computes + (IF r.ran THEN 1 ELSE 0)]
                       ELSE calls[k]],
         idle |-> [k \in DOMAIN idle \cup {key} |-> IF k = key THEN 0 ELSE idle[k]],
         last |-> Some([key |-> key, wanted |-> wanted, got |-> r.value, ran |-> r.ran])]

\* get_tileset_gfx_texture(ctx, layout, palette_line) for the layout the
\* editor detects from its selected SCE and CRE
GetTilesetGfxTexture(sce, cre, palette_line) ==
    LET layouts == map_refs(detect_sources_layout(sce, cre))
        cache_key == VramLayoutGfx(layouts.gfx, palette_line)
        r == Request(cache_key, Texture(layouts.gfx, None, Some(palette_line)))
    IN  /\ nGets < MaxGets
        /\ nGets' = nGets + 1
        /\ entries' = r.entries
        /\ calls' = r.calls
        /\ idle' = r.idle
        /\ last' = r.last
        /\ UNCHANGED <<update_counter, nUpdates>>
        /\ UNCHANGED notCacheVars

\* get_tileset_ttb_texture(ctx, gfx_layout, ttb_layout)
GetTilesetTtbTexture(sce, cre) ==
    LET layouts == map_refs(detect_sources_layout(sce, cre))
        cache_key == VramLayoutTtb(layouts.tiletable)
        r == Request(cache_key, Texture(layouts.gfx, Some(layouts.tiletable), None))
    IN  /\ nGets < MaxGets
        /\ nGets' = nGets + 1
        /\ entries' = r.entries
        /\ calls' = r.calls
        /\ idle' = r.idle
        /\ last' = r.last
        /\ UNCHANGED <<update_counter, nUpdates>>
        /\ UNCHANGED notCacheVars

\* The per-frame maintenance pass
Update ==
    LET u == cache_update(entries, update_counter)
    IN  /\ nUpdates < MaxUpdates
        /\ nUpdates' = nUpdates + 1
        /\ entries' = u.entries
        /\ update_counter' = u.update_counter
        /\ calls' = EmptyMap
        /\ idle' = [k \in DOMAIN idle |-> idle[k] + 1]
        /\ UNCHANGED <<last, nGets>>
        /\ UNCHANGED notCacheVars

LayoutIdle ==
    /\ layout = <<>>
    /\ selected = None
    /\ loaded = None
    /\ lookupArg = None
    /\ lookupRes = None
    /\ rangeRes = <<"unset">>
ColorIdle == color = 0 /\ rgb8 = None
TileIdle == tile = <<>> /\ images = EmptyMap
CacheIdle ==
    /\ update_counter = <<0, 0>>
    /\ entries = EmptyMap
    /\ calls = EmptyMap
    /\ idle = EmptyMap
    /\ last = None
    /\ nGets = 0
    /\ nUpdates = 0

DrawIdle == drawn = None

BlockIdle == blocks = <<>> /\ tiletable = <<>> /\ cell = None /\ subtile = None

ComposeIdle == source = <<>> /\ grid = <<>> /\ composed = None

SheetIdle == sheetTiles = <<>> /\ sheetPalette = <<>> /\ perRow = 0 /\ sheet = None

PaletteIdle == colors = <<>> /\ truncated = None

EntryIdle == tilemapEntry = None /\ made = None

HexIdle == text = <<>> /\ parsed = None

PromiseIdle == future = None /\ last_result = None /\ ret = None /\ readyPolls = <<>> /\ handed = <<>> /\ nLaunched = 0 /\ nSet = 0

DecodeIdle == planeTile = <<>> /\ decoded = None

FlatIdle == flat = <<>> /\ flatRet = None

ImportIdle == importArg = <<>> /\ importRet = None

AppIdle ==
    /\ appState = "" /\ dialog = None /\ loading = None /\ appLast = None
    /\ open_editors = <<>> /\ showLast = None

\* the idle values of every group but one
NotCacheIdle ==
    /\ LayoutIdle
    /\ ColorIdle
    /\ TileIdle
    /\ DrawIdle
    /\ BlockIdle
    /\ ComposeIdle
    /\ SheetIdle
    /\ PaletteIdle
    /\ EntryIdle
    /\ HexIdle
    /\ PromiseIdle
    /\ DecodeIdle
    /\ FlatIdle
    /\ ImportIdle
    /\ AppIdle
NotLayoutIdle ==
    /\ CacheIdle
    /\ ColorIdle
    /\ TileIdle
    /\ DrawIdle
    /\ BlockIdle
    /\ ComposeIdle
    /\ SheetIdle
    /\ PaletteIdle
    /\ EntryIdle
    /\ HexIdle
    /\ PromiseIdle
    /\ DecodeIdle
    /\ FlatIdle
    /\ ImportIdle
    /\ AppIdle
NotColorIdle ==
    /\ CacheIdle
    /\ LayoutIdle
    /\ TileIdle
    /\ DrawIdle
    /\ BlockIdle
    /\ ComposeIdle
    /\ SheetIdle
    /\ PaletteIdle
    /\ EntryIdle
    /\ HexIdle
    /\ PromiseIdle
    /\ DecodeIdle
    /\ FlatIdle
    /\ ImportIdle
    /\ AppIdle
NotTileIdle ==
    /\ CacheIdle
    /\ LayoutIdle
    /\ ColorIdle
    /\ DrawIdle
    /\ BlockIdle
    /\ ComposeIdle
    /\ SheetIdle
    /\ PaletteIdle
    /\ EntryIdle
    /\ HexIdle
    /\ PromiseIdle
    /\ DecodeIdle
    /\ FlatIdle
    /\ ImportIdle
    /\ AppIdle
NotDrawIdle ==
    /\ CacheIdle
    /\ LayoutIdle
    /\ ColorIdle
    /\ TileIdle
    /\ BlockIdle
    /\ ComposeIdle
    /\ SheetIdle
    /\ PaletteIdle
    /\ EntryIdle
    /\ HexIdle
    /\ PromiseIdle
    /\ DecodeIdle
    /\ FlatIdle
    /\ ImportIdle
    /\ AppIdle
NotBlockIdle ==
    /\ CacheIdle
    /\ LayoutIdle
    /\ ColorIdle
    /\ TileIdle
    /\ DrawIdle
    /\ ComposeIdle
    /\ SheetIdle
    /\ PaletteIdle
    /\ EntryIdle
    /\ HexIdle
    /\ PromiseIdle
    /\ DecodeIdle
    /\ FlatIdle
    /\ ImportIdle
    /\ AppIdle
NotComposeIdle ==
    /\ CacheIdle
    /\ LayoutIdle
    /\ ColorIdle
    /\ TileIdle
    /\ DrawIdle
    /\ BlockIdle
    /\ SheetIdle
    /\ PaletteIdle
    /\ EntryIdle
    /\ HexIdle
    /\ PromiseIdle
    /\ DecodeIdle
    /\ FlatIdle
    /\ ImportIdle
    /\ AppIdle
NotSheetIdle ==
    /\ CacheIdle
    /\ LayoutIdle
    /\ ColorIdle
    /\ TileIdle
    /\ DrawIdle
    /\ BlockIdle
    /\ ComposeIdle
    /\ PaletteIdle
    /\ EntryIdle
    /\ HexIdle
    /\ PromiseIdle
    /\ DecodeIdle
    /\ FlatIdle
    /\ ImportIdle
    /\ AppIdle
NotPaletteIdle ==
    /\ CacheIdle
    /\ LayoutIdle
    /\ ColorIdle
    /\ TileIdle
    /\ DrawIdle
    /\ BlockIdle
    /\ ComposeIdle
    /\ SheetIdle
    /\ EntryIdle
    /\ HexIdle
    /\ PromiseIdle
    /\ DecodeIdle
    /\ FlatIdle
    /\ ImportIdle
    /\ AppIdle
NotEntryIdle ==
    /\ CacheIdle
    /\ LayoutIdle
    /\ ColorIdle
    /\ TileIdle
    /\ DrawIdle
    /\ BlockIdle
    /\ ComposeIdle
    /\ SheetIdle
    /\ PaletteIdle
    /\ HexIdle
    /\ PromiseIdle
    /\ DecodeIdle
    /\ FlatIdle
    /\ ImportIdle
    /\ AppIdle
NotHexIdle ==
    /\ CacheIdle
    /\ LayoutIdle
    /\ ColorIdle
    /\ TileIdle
    /\ DrawIdle
    /\ BlockIdle
    /\ ComposeIdle
    /\ SheetIdle
    /\ PaletteIdle
    /\ EntryIdle
    /\ PromiseIdle
    /\ DecodeIdle
    /\ FlatIdle
    /\ ImportIdle
    /\ AppIdle
NotPromiseIdle ==
    /\ CacheIdle
    /\ LayoutIdle
    /\ ColorIdle
    /\ TileIdle
    /\ DrawIdle
    /\ BlockIdle
    /\ ComposeIdle
    /\ SheetIdle
    /\ PaletteIdle
    /\ EntryIdle
    /\ HexIdle
    /\ DecodeIdle
    /\ FlatIdle
    /\ ImportIdle
    /\ AppIdle
NotDecodeIdle ==
    /\ CacheIdle
    /\ LayoutIdle
    /\ ColorIdle
    /\ TileIdle
    /\ DrawIdle
    /\ BlockIdle
    /\ ComposeIdle
    /\ SheetIdle
    /\ PaletteIdle
    /\ EntryIdle
    /\ HexIdle
    /\ PromiseIdle
    /\ FlatIdle
    /\ ImportIdle
    /\ AppIdle
NotFlatIdle ==
    /\ CacheIdle
    /\ LayoutIdle
    /\ ColorIdle
    /\ TileIdle
    /\ DrawIdle
    /\ BlockIdle
    /\ ComposeIdle
    /\ SheetIdle
    /\ PaletteIdle
    /\ EntryIdle
    /\ HexIdle
    /\ PromiseIdle
    /\ DecodeIdle
    /\ ImportIdle
    /\ AppIdle
NotImportIdle ==
    /\ CacheIdle
    /\ LayoutIdle
    /\ ColorIdle
    /\ TileIdle
    /\ DrawIdle
    /\ BlockIdle
    /\ ComposeIdle
    /\ SheetIdle
    /\ PaletteIdle
    /\ EntryIdle
    /\ HexIdle
    /\ PromiseIdle
    /\ DecodeIdle
    /\ FlatIdle
    /\ AppIdle
NotAppIdle ==
    /\ CacheIdle
    /\ LayoutIdle
    /\ ColorIdle
    /\ TileIdle
    /\ DrawIdle
    /\ BlockIdle
    /\ ComposeIdle
    /\ SheetIdle
    /\ PaletteIdle
    /\ EntryIdle
    /\ HexIdle
    /\ PromiseIdle
    /\ DecodeIdle
    /\ FlatIdle
    /\ ImportIdle
\* the idle values of every group but the tile and what is drawn from it
NotTileDrawIdle ==
    /\ CacheIdle
    /\ LayoutIdle
    /\ ColorIdle
    /\ BlockIdle
    /\ ComposeIdle
    /\ SheetIdle
    /\ PaletteIdle
    /\ EntryIdle
    /\ HexIdle
    /\ PromiseIdle
    /\ DecodeIdle
    /\ FlatIdle
    /\ ImportIdle
    /\ AppIdle

Next ==
    \/ \E sce \in SceTilesets, cre \in CreTilesets, palette_line \in PaletteLines :
           GetTilesetGfxTexture(sce, Some(cre), palette_line)
    \/ \E sce \in SceTilesets, cre \in CreTilesets :
           GetTilesetTtbTexture(sce, Some(cre))
    \/ Update

Init == CacheInit /\ NotCacheIdle
Spec == Init /\ [][Next]_vars

(***************************************************************************)
(* The overlay resolver as a state machine: a layout is built by pushing   *)
(* entries, or detected from a selected SCE and CRE, and then queried.     *)
(***************************************************************************)
SceGfxLens == {0, 639, 768}
SceTtbLens == {0, 768, 769, 1024}
CreGfxLens == {0, 384}
CreTtbLens == {256, 512}
GfxProbes == {0, 639, 640, 641, 768, 769, 1024, 1025}

Unqueried == lookupArg = None /\ rangeRes = <<"unset">>

\* entries.push(OverlaidLayoutEntry { base, size, tileset })
PushEntry(base, size, tileset) ==
    /\ loaded = None
    /\ Unqueried
    /\ Len(layout) < MaxEntries
    /\ layout' = Append(layout, OverlaidLayoutEntry(base, size, tileset))
    /\ UNCHANGED <<selected, loaded, lookupArg, lookupRes, rangeRes>>
    /\ UNCHANGED notLayoutVars

\* layout.lookup(i)
Lookup(i) ==
    /\ loaded = None
    /\ lookupArg' = Some([on |-> "layout", i |-> i])
    /\ lookupRes' = lookup(layout, i)
    /\ UNCHANGED <<layout, selected, loaded, rangeRes>>
    /\ UNCHANGED notLayoutVars

\* layout.valid_range()
ValidRange ==
    /\ loaded = None
    /\ rangeRes' = <<"set", valid_range(layout)>>
    /\ UNCHANGED <<layout, selected, loaded, lookupArg, lookupRes>>
    /\ UNCHANGED notLayoutVars

\* detect_sources_layout(selected_sce, selected_cre)
DetectSourcesLayout(sce, cre) ==
    /\ layout = <<>>
    /\ loaded = None
    /\ Unqueried
    /\ selected' = Some([sce |-> sce, cre |-> cre])
    /\ loaded' = Some(detect_sources_layout(sce, cre))
    /\ UNCHANGED <<layout, lookupArg, lookupRes, rangeRes>>
    /\ UNCHANGED notLayoutVars

\* loaded.gfx.lookup(i)
LookupGfx(i) ==
    /\ IsSome(loaded)
    /\ lookupArg' = Some([on |-> "gfx", i |-> i])
    /\ lookupRes' = lookup(Unwrap(loaded).gfx, i)
    /\ UNCHANGED <<layout, selected, loaded, rangeRes>>
    /\ UNCHANGED notLayoutVars

LayoutInit == LayoutIdle /\ NotLayoutIdle

LayoutNext ==
    \/ \E base \in EntryBases, size \in EntrySizes, tileset \in EntryRefs :
           PushEntry(base, size, tileset)
    \/ \E i \in 0..MaxIndex : Lookup(i)
    \/ ValidRange
    \/ \E g \in SceGfxLens, t \in SceTtbLens :
           \/ DetectSourcesLayout(Tileset("sce", g, t), None)
           \/ DetectSourcesLayout(Tileset("sce", g, t), Some(Tileset("sce", g, t)))
           \/ \E cg \in CreGfxLens, ct \in CreTtbLens :
                  DetectSourcesLayout(Tileset("sce", g, t), Some(Tileset("cre", cg, ct)))
    \/ \E i \in GfxProbes : LookupGfx(i)

SpecLayout == LayoutInit /\ [][LayoutNext]_vars

(***************************************************************************)
(* SnesColor (src/gfx.rs).                                                 *)
(***************************************************************************)
\* as_rgb_5bpc: [(c) & 0x1F, (c >> 5) & 0x1F, (c >> 10) & 0x1F]
as_rgb_5bpc(c) == <<c % 32, (c \div 32) % 32, (c \div 1024) % 32>>

\* expansion by a left shift of 3 (no rounding, 31 maps to 248)
expand_channel_shift(x) == ((x * 8) % 2^16) % 256

\* the closure of as_rgb_8bpc: { (x * 0xFF + (0x1F / 2)) / 0x1F } as u8, in u16
expand_channel(x) == (((x * 255 + (31 \div 2)) % 2^16) \div 31) % 256

as_rgb_8bpc(c) ==
    LET ch == as_rgb_5bpc(c)
    IN  <<expand_channel(ch[1]), expand_channel(ch[2]), expand_channel(ch[3])>>

\* every SnesColor(u16)
SnesColors == 0..(2^16 - 1)

ColorInit ==
    /\ color \in SnesColors
    /\ rgb8 = None
    /\ NotColorIdle

\* color.as_rgb_8bpc()
AsRgb8bpc ==
    /\ rgb8 = None
    /\ rgb8' = Some(as_rgb_8bpc(color))
    /\ UNCHANGED color
    /\ UNCHANGED notColorVars

ColorNext == AsRgb8bpc

SpecColor == ColorInit /\ [][ColorNext]_vars

(***************************************************************************)
(* Snes4BppTile decoding (src/gfx.rs).  A u32 row word is kept as the set  *)
(* of its set bit positions 0..31, so shifts drop the bits that leave the  *)
(* word and the bitwise operators are the set operators.                   *)
(***************************************************************************)
BitsOf(n) == {k \in 0..30 : (n \div 2^k) % 2 = 1}
Shl(x, n) == {k + n : k \in x} \cap 0..31
Shr(x, n) == {k - n : k \in x} \cap 0..31
BitAnd(x, y) == x \cap y
BitOr(x, y) == x \cup y
\* the value of a word that has no bit above bit 3
Nibble(x) ==
    (IF 0 \in x THEN 1 ELSE 0) + (IF 1 \in x THEN 2 ELSE 0)
    + (IF 2 \in x THEN 4 ELSE 0) + (IF 3 \in x THEN 8 ELSE 0)

\* the masks 0x000F_000F, 0x0303_0303, 0x1111_1111 and 0xF
Mask000F000F == BitsOf(983055)
Mask03030303 == BitsOf(50529027)
Mask11111111 == BitsOf(286331153)
MaskF == BitsOf(15)

spread_u8_x4(b) ==
    LET x0 == BitsOf(b)
        \* 0x000F_000F & (x | x << 12)
        x1 == BitAnd(Mask000F000F, BitOr(x0, Shl(x0, 12)))
        \* 0x0303_0303 & (x | x << 6)
        x2 == BitAnd(Mask03030303, BitOr(x1, Shl(x1, 6)))
        \* 0x1111_1111 & (x | x << 3)
        x3 == BitAnd(Mask11111111, BitOr(x2, Shl(x2, 3)))
    IN  x3

\* decode_bitplanes with bitplanes 2 and 3 exchanged
decode_bitplanes_swapped(bitplanes) ==
    BitOr(BitOr(BitOr(spread_u8_x4(bitplanes[1]),
                      Shl(spread_u8_x4(bitplanes[2]), 1)),
                Shl(spread_u8_x4(bitplanes[4]), 2)),
          Shl(spread_u8_x4(bitplanes[3]), 3))

\* spread[0] | spread[1] << 1 | spread[2] << 2 | spread[3] << 3
decode_bitplanes(bitplanes) ==
    BitOr(BitOr(BitOr(spread_u8_x4(bitplanes[1]),
                      Shl(spread_u8_x4(bitplanes[2]), 1)),
                Shl(spread_u8_x4(bitplanes[3]), 2)),
          Shl(spread_u8_x4(bitplanes[4]), 3))

\* bitplane_sets: item r (0..7) zips byte pair r with byte pair 8 + r
bitplane_sets(t) ==
    [r \in 0..7 |-> <<t[2 * r + 1], t[2 * r + 2], t[2 * r + 17], t[2 * r + 18]>>]

\* Color32::TRANSPARENT and opaque colours, as premultiplied (r, g, b, a)
TRANSPARENT == <<0, 0, 0, 0>>
from_rgb(r, g, b) == <<r, g, b, 255>>

\* the index of the j-th pixel (j = 0..7) taken from row word bp: the code
\* shifts the word by 4 after each pixel
PixelIndex(bp, j, H_FLIP) ==
    IF H_FLIP THEN Nibble(BitAnd(Shr(bp, 4 * j), MaskF))
    ELSE Nibble(Shr(Shl(bp, 4 * j), 32 - 4))

\* write_to_image::<H_FLIP, USE_TRANSPARENCY>(palette, output).  `img` is the
\* 8x8 pixel block the slivers of `output` point into and `order[n]` is the
\* row of img that the n-th sliver of the iterator is (n = 0..7).
write_to_image(t, palette, img, order, H_FLIP, USE_TRANSPARENCY) ==
    LET rows == bitplane_sets(t)
        from(y) == CHOOSE n \in 0..7 : order[n] = y
        words == [n \in 0..7 |-> decode_bitplanes(rows[n])]
    IN  [y \in 0..7 |->
            [x \in 0..7 |->
                LET index == PixelIndex(words[from(y)], x, H_FLIP)
                IN  IF USE_TRANSPARENCY /\ index = 0 THEN img[y][x]
                    ELSE palette[index]]]

Forward == [n \in 0..7 |-> n]
\* output_slivers.rev()
Rev == [n \in 0..7 |-> 7 - n]

\* write_to_image_flippable without the .rev() of the v_flip arms
write_to_image_flippable_norev(t, palette, img, fl, USE_TRANSPARENCY) ==
    IF fl[1] THEN write_to_image(t, palette, img, Forward, TRUE, FALSE)
    ELSE write_to_image(t, palette, img, Forward, FALSE, FALSE)

\* write_to_image_flippable::<USE_TRANSPARENCY>(palette, output_slivers, flips):
\* all four arms instantiate write_to_image with USE_TRANSPARENCY = false
write_to_image_flippable(t, palette, img, fl, USE_TRANSPARENCY) ==
    CASE fl = <<FALSE, FALSE>> -> write_to_image(t, palette, img, Forward, FALSE, FALSE)
      [] fl = <<TRUE, FALSE>> -> write_to_image(t, palette, img, Forward, TRUE, FALSE)
      [] fl = <<FALSE, TRUE>> -> write_to_image(t, palette, img, Rev, FALSE, FALSE)
      [] fl = <<TRUE, TRUE>> -> write_to_image(t, palette, img, Rev, TRUE, FALSE)

\* Each tile is decoded without flips first and then with up to
\* MaxDecodes - 1 other flip combinations.
MaxDecodes == 2

\* The tiles decoded: one row holds four chosen bitplane bytes, the other
\* rows a fixed pattern that differs from row to row and is not symmetric.
TileBytes == {27, 128, 255}
PatternByte(i) == (37 * i + 101 * (i \div 16) + 13) % 256
TileWith(r, b) ==
    [i \in 1..32 |->
        IF i = 2 * r + 1 THEN b[1]
        ELSE IF i = 2 * r + 2 THEN b[2]
        ELSE IF i = 2 * r + 17 THEN b[3]
        ELSE IF i = 2 * r + 18 THEN b[4]
        ELSE PatternByte(i)]
Tiles == {TileWith(r, b) : r \in 0..7, b \in [1..4 -> TileBytes]}

\* a palette line of 16 distinct opaque colours
TilePalette == [i \in 0..15 |-> from_rgb(17 * i, 255 - 17 * i, i)]
BlankImage == [y \in 0..7 |-> [x \in 0..7 |-> TRANSPARENT]]

TileInit ==
    /\ tile \in Tiles
    /\ images = EmptyMap
    /\ NotTileIdle

\* tile.write_to_image_flippable::<false>(&palette, slivers of a blank block, flips)
WriteToImageFlippable(fl) ==
    /\ fl \notin DOMAIN images
    /\ Cardinality(DOMAIN images) < MaxDecodes
    /\ fl = <<FALSE, FALSE>> \/ <<FALSE, FALSE>> \in DOMAIN images
    /\ images' = [f \in DOMAIN images \cup {fl} |->
                     IF f = fl
                     THEN write_to_image_flippable(tile, TilePalette, BlankImage, fl, FALSE)
                     ELSE images[f]]
    /\ UNCHANGED tile
    /\ UNCHANGED notTileVars

TileNext == \E h \in BOOLEAN, v \in BOOLEAN : WriteToImageFlippable(<<h, v>>)

SpecTile == TileInit /\ [][TileNext]_vars

(***************************************************************************)
(* Writing a tile over an image that already has pixels (src/gfx.rs):      *)
(* write_to_image called directly, with the slivers in order or reversed,  *)
(* and write_to_image_flippable, each with and without USE_TRANSPARENCY.   *)
(***************************************************************************)
\* the pixels of the output before the write: opaque, no two alike, none of
\* them a colour of TilePalette
Backdrop == [y \in 0..7 |-> [x \in 0..7 |-> from_rgb(1, y, x)]]

DrawInit ==
    /\ tile \in Tiles
    /\ images = EmptyMap
    /\ drawn = None
    /\ NotTileDrawIdle

\* tile.write_to_image::<H_FLIP, USE_TRANSPARENCY>(&palette, slivers), the
\* slivers of the 8x8 block given top to bottom or, with rev, bottom to top
WriteToImage(H_FLIP, rev, USE_TRANSPARENCY) ==
    /\ drawn = None
    /\ drawn' = Some([via |-> "write_to_image",
                      flips |-> <<H_FLIP, rev>>,
                      transparency |-> USE_TRANSPARENCY,
                      pixels |-> write_to_image(tile, TilePalette, Backdrop,
                                                IF rev THEN Rev ELSE Forward,
                                                H_FLIP, USE_TRANSPARENCY)])
    /\ UNCHANGED notDrawVars

\* tile.write_to_image_flippable::<USE_TRANSPARENCY>(&palette, slivers, flips)
WriteToImageFlippableOver(fl, USE_TRANSPARENCY) ==
    /\ drawn = None
    /\ drawn' = Some([via |-> "write_to_image_flippable",
                      flips |-> fl,
                      transparency |-> USE_TRANSPARENCY,
                      pixels |-> write_to_image_flippable(tile, TilePalette, Backdrop,
                                                          fl, USE_TRANSPARENCY)])
    /\ UNCHANGED notDrawVars

DrawNext ==
    \/ \E h \in BOOLEAN, rev \in BOOLEAN, t \in BOOLEAN : WriteToImage(h, rev, t)
    \/ \E h \in BOOLEAN, v \in BOOLEAN, t \in BOOLEAN :
           WriteToImageFlippableOver(<<h, v>>, t)

SpecDraw == DrawInit /\ [][DrawNext]_vars

(***************************************************************************)
(* TilemapEntry, LevelDataEntry (src/project.rs) and BlockTilemapModel     *)
(* (src/ui/tile_view.rs).  Both entries are u16 words.                     *)
(***************************************************************************)
\* BitField::get_bit(i), get_bits(lo..hi) and a word with bit i toggled
get_bit(w, i) == (w \div 2^i) % 2 = 1
get_bits(w, lo, hi) == (w \div 2^lo) % 2^(hi - lo)
toggle_bit(w, i) == IF get_bit(w, i) THEN w - 2^i ELSE w + 2^i

\* TilemapEntry
tile_id(e) == get_bits(e, 0, 10)
H_FLIP_FLAG == 2^14
h_flip(e) == get_bit(e, 14)
V_FLIP_FLAG == 2^15
v_flip(e) == get_bit(e, 15)
priority(e) == get_bit(e, 13)
palette_of(e) == get_bits(e, 10, 13)

\* LevelDataEntry
block_id(b) == get_bits(b, 0, 10)
block_h_flip(b) == get_bit(b, 11)
block_v_flip(b) == get_bit(b, 12)
\* LevelDataEntry::for_tile(id).with_flips(h, v)
LevelDataEntry(id, h, v) ==
    (id % 2^10) + (IF h THEN 2^11 ELSE 0) + (IF v THEN 2^12 ELSE 0)

\* GridModel::get of a grid kept as its dimensions and its cells
grid_get(g, x, y) ==
    IF x < g.dimensions[1] /\ y < g.dimensions[2] THEN g.cells[<<x, y>>] ELSE None

\* the tiletable_get closure over a tiletable vector: tiletable.get(i).copied()
tiletable_get(ttb, i) == IF i < Len(ttb) THEN Some(ttb[i + 1]) ELSE None

\* BlockTilemapModel::get with the subtile taken at the unflipped position
BlockTilemapModel_get_unswapped(g, ttb, x, y) ==
    LET block == grid_get(g, x \div 2, y \div 2)
        subtiles == IF IsSome(block) THEN tiletable_get(ttb, block_id(Unwrap(block)))
                    ELSE None
        b == Unwrap(block)
        picked == Unwrap(subtiles)[(y % 2) * 2 + (x % 2) + 1]
        flipped_h == IF block_h_flip(b) THEN toggle_bit(picked, 14) ELSE picked
        flipped_v == IF block_v_flip(b) THEN toggle_bit(flipped_h, 15) ELSE flipped_h
    IN  IF ~IsSome(block) \/ ~IsSome(subtiles) THEN None ELSE Some(flipped_v)

\* BlockTilemapModel::get
BlockTilemapModel_get(g, ttb, x, y) ==
    LET block == grid_get(g, x \div 2, y \div 2)
        subtiles == IF IsSome(block) THEN tiletable_get(ttb, block_id(Unwrap(block)))
                    ELSE None
        b == Unwrap(block)
        \* subtile_x ^= 1 / subtile_y ^= 1
        subtile_x == IF block_h_flip(b) THEN 1 - (x % 2) ELSE x % 2
        subtile_y == IF block_v_flip(b) THEN 1 - (y % 2) ELSE y % 2
        picked == Unwrap(subtiles)[subtile_y * 2 + subtile_x + 1]
        \* subtile.0 ^= H_FLIP_FLAG / V_FLIP_FLAG
        flipped_h == IF block_h_flip(b) THEN toggle_bit(picked, 14) ELSE picked
        flipped_v == IF block_v_flip(b) THEN toggle_bit(flipped_h, 15) ELSE flipped_h
    IN  IF ~IsSome(block) \/ ~IsSome(subtiles) THEN None ELSE Some(flipped_v)

\* BlockTilemapModel::dimensions
BlockTilemapModel_dimensions(g) == <<g.dimensions[1] * 2, g.dimensions[2] * 2>>

\* The grids and tiletables the model is queried with.
MaxBlocksPerRow == 2
MaxBlockRows == 2
\* what a grid cell can hold: nothing, or a block of the tiletable (0, 1) or
\* beyond its end (5), with each flip combination
BlockCells ==
    <<None>> \o
    [n \in 1..12 |->
        Some(LevelDataEntry(<<0, 1, 5>>[((n - 1) % 3) + 1],
                            ((n - 1) \div 3) % 2 = 1, (n - 1) \div 6 = 1))]
\* the w by h grid whose cells run through BlockCells from position k on
GridOf(w, h, k) ==
    [dimensions |-> <<w, h>>,
     cells |-> [c \in (0..(w - 1)) \X (0..(h - 1)) |->
                   BlockCells[((k + c[1] + w * c[2]) % Len(BlockCells)) + 1]]]
BlockGrid(k) == GridOf(MaxBlocksPerRow, MaxBlockRows, k)
\* a TilemapEntry word from its fields
TilemapWord(id, pal, pri, h, v) ==
    id + 2^10 * pal + (IF pri THEN 2^13 ELSE 0)
    + (IF h THEN 2^14 ELSE 0) + (IF v THEN 2^15 ELSE 0)
\* two tiletable entries of four different subtiles; f sets the flips of the
\* subtiles: subtile n of entry e has h_flip (f + n + e) % 2 and v_flip
\* ((f + n) \div 2) % 2
Tiletable(f) ==
    [e \in 1..2 |->
        [n \in 1..4 |->
            TilemapWord(4 * e + n, n + e, n = 2,
                        (f + n + e) % 2 = 1, ((f + n) \div 2) % 2 = 1)]]

BlockInit ==
    /\ blocks \in {BlockGrid(k) : k \in 0..(Len(BlockCells) - 1)}
    /\ tiletable \in {Tiletable(f) : f \in 0..3}
    /\ cell = None
    /\ subtile = None
    /\ NotBlockIdle

\* model.get(x, y) of BlockTilemapModel { blocks, tiletable_get }
BlockGet(x, y) ==
    /\ cell' = Some(<<x, y>>)
    /\ subtile' = BlockTilemapModel_get(blocks, tiletable, x, y)
    /\ UNCHANGED <<blocks, tiletable>>
    /\ UNCHANGED notBlockVars

BlockNext ==
    \E x \in 0..(BlockTilemapModel_dimensions(blocks)[1] - 1),
       y \in 0..(BlockTilemapModel_dimensions(blocks)[2] - 1) : BlockGet(x, y)

SpecBlock == BlockInit /\ [][BlockNext]_vars

(***************************************************************************)
(* tiletable_to_image (src/gfx.rs): the blocks of a grid composited into   *)
(* one flat, row-major pixel buffer.  The buffer is a function on          *)
(* 0..(width * height - 1); sliver s is the pixels 8s .. 8s + 7.           *)
(***************************************************************************)
TILE_SIZE == 8
BLOCK_SIZE == TILE_SIZE * 2
LINE_4BPP_LEN == 16

\* Color32::from that keeps the 5-bit channels as they are (no expansion)
Color32_from_5bpc(c) ==
    LET ch == as_rgb_5bpc(c) IN from_rgb(ch[1], ch[2], ch[3])

\* Color32::from(SnesColor)
Color32_from(c) ==
    LET ch == as_rgb_8bpc(c) IN from_rgb(ch[1], ch[2], ch[3])

\* palettes_c32: the colours of the palette in order, eight lines of sixteen,
\* the lines the palette does not reach filled with Color32::TRANSPARENT
palettes_c32_of(pal) ==
    [line \in 0..7 |->
        [i \in 0..(LINE_4BPP_LEN - 1) |->
            IF LINE_4BPP_LEN * line + i < Len(pal)
            THEN Color32_from(pal[LINE_4BPP_LEN * line + i + 1])
            ELSE TRANSPARENT]]

\* block_entry with the flip flags toggled but the subtiles left in place
flipped_block_entry_in_place(entry, block) ==
    LET h == IF block_h_flip(block)
             THEN [n \in 1..4 |-> toggle_bit(entry[n], 14)]
             ELSE entry
        v == IF block_v_flip(block)
             THEN [n \in 1..4 |-> toggle_bit(h[n], 15)]
             ELSE h
    IN  v

\* block_entry after the swaps and flag toggles of the block's flips
flipped_block_entry(entry, block) ==
    LET h == IF block_h_flip(block)
             THEN [n \in 1..4 |-> toggle_bit(entry[<<2, 1, 4, 3>>[n]], 14)]
             ELSE entry
        v == IF block_v_flip(block)
             THEN [n \in 1..4 |-> toggle_bit(h[<<3, 4, 1, 2>>[n]], 15)]
             ELSE h
    IN  v

\* the subtiles the loops visit, in order: (block_y, block_x, subtile_y, subtile_x)
SubtileJobs(blocks_per_row, n_rows) ==
    [n \in 1..(n_rows * blocks_per_row * 4) |->
        LET b == (n - 1) \div 4
        IN  <<b \div blocks_per_row, b % blocks_per_row,
              ((n - 1) % 4) \div 2, (n - 1) % 2>>]

\* the eight slivers output_slivers yields for one subtile:
\* row_slivers[tiles_per_row * (TILE_SIZE * subtile_y)..][..tiles_per_row * TILE_SIZE]
\*     [block_x * 2 + subtile_x..].iter_mut().step_by(tiles_per_row)
output_slivers(tiles_per_row, job) ==
    LET row_start == job[1] * (tiles_per_row * BLOCK_SIZE)
        subrow_start == row_start + tiles_per_row * (TILE_SIZE * job[3])
        first == job[2] * 2 + job[4]
        count == ((tiles_per_row * TILE_SIZE - first) + tiles_per_row - 1)
                 \div tiles_per_row
    IN  [n \in 0..(count - 1) |-> subrow_start + first + n * tiles_per_row]

\* the loop body with `return` in place of the `continue` of a tile that is
\* not in gfx: nothing is drawn from that subtile on, so the pixels stay as
\* they are for every later subtile too
paint_subtile_return(ts, g, pixels, tiles_per_row, job) ==
    LET jobs == SubtileJobs(g.dimensions[1], g.dimensions[2])
        missing(j) ==
            LET block == grid_get(g, j[2], j[1])
                entry == IF IsSome(block)
                         THEN tiletable_get(ts.tiletable, block_id(Unwrap(block)))
                         ELSE None
            IN  /\ IsSome(block) /\ IsSome(entry)
                /\ tile_id(flipped_block_entry(Unwrap(entry), Unwrap(block))
                               [j[3] * 2 + j[4] + 1]) >= Len(ts.gfx)
        at == CHOOSE n \in 1..Len(jobs) : jobs[n] = job
        block == grid_get(g, job[2], job[1])
        entry == IF IsSome(block) THEN tiletable_get(ts.tiletable, block_id(Unwrap(block)))
                 ELSE None
        block_entry == flipped_block_entry(Unwrap(entry), Unwrap(block))
        tile_entry == block_entry[job[3] * 2 + job[4] + 1]
        slivers == output_slivers(tiles_per_row, job)
        before == [y \in 0..7 |-> [x \in 0..7 |-> pixels[TILE_SIZE * slivers[y] + x]]]
        after == write_to_image_flippable(ts.gfx[tile_id(tile_entry) + 1],
                     palettes_c32_of(ts.palette)[palette_of(tile_entry)], before,
                     <<h_flip(tile_entry), v_flip(tile_entry)>>, FALSE)
        written == [q \in {TILE_SIZE * slivers[y] + x : y \in 0..7, x \in 0..7} |->
                       after[CHOOSE y \in 0..7 :
                                 q \div TILE_SIZE = slivers[y]][q % TILE_SIZE]]
    IN  IF \E n \in 1..at : missing(jobs[n]) THEN pixels
        ELSE IF ~IsSome(block) \/ ~IsSome(entry) THEN pixels
        ELSE written @@ pixels

\* one pass of the innermost loop body: the pixels after subtile `job`
paint_subtile(ts, g, pixels, tiles_per_row, job) ==
    LET block == grid_get(g, job[2], job[1])
        entry == IF IsSome(block) THEN tiletable_get(ts.tiletable, block_id(Unwrap(block)))
                 ELSE None
        block_entry == flipped_block_entry(Unwrap(entry), Unwrap(block))
        tile_entry == block_entry[job[3] * 2 + job[4] + 1]
        slivers == output_slivers(tiles_per_row, job)
        \* the zip in write_to_image pairs the 8 tile rows with the slivers
        rows == Min(8, Cardinality(DOMAIN slivers))
        before == [y \in 0..(rows - 1) |-> [x \in 0..7 |->
                      pixels[TILE_SIZE * slivers[y] + x]]]
        after == write_to_image_flippable(ts.gfx[tile_id(tile_entry) + 1],
                     palettes_c32_of(ts.palette)[palette_of(tile_entry)], before,
                     <<h_flip(tile_entry), v_flip(tile_entry)>>, FALSE)
        written == [q \in {TILE_SIZE * slivers[y] + x : y \in 0..(rows - 1), x \in 0..7} |->
                       after[CHOOSE y \in 0..(rows - 1) :
                                 q \div TILE_SIZE = slivers[y]][q % TILE_SIZE]]
    IN  IF ~IsSome(block) \/ ~IsSome(entry) THEN pixels
        ELSE IF tile_id(tile_entry) >= Len(ts.gfx) THEN pixels
        ELSE written @@ pixels

RECURSIVE paint_subtiles(_, _, _, _, _, _)
paint_subtiles(ts, g, pixels, tiles_per_row, jobs, n) ==
    IF n > Len(jobs) THEN pixels
    ELSE paint_subtiles(ts, g, paint_subtile(ts, g, pixels, tiles_per_row, jobs[n]),
                        tiles_per_row, jobs, n + 1)

\* tiletable_to_image(tileset, model).  chunks_exact_mut panics on a chunk
\* size of 0, that is when the grid has no column.
tiletable_to_image(ts, g) ==
    LET blocks_per_row == g.dimensions[1]
        n_rows == g.dimensions[2]
        tiles_per_row == blocks_per_row * 2
        width == blocks_per_row * BLOCK_SIZE
        height == n_rows * BLOCK_SIZE
        blank == [q \in 0..(width * height - 1) |-> TRANSPARENT]
    IN  IF tiles_per_row * BLOCK_SIZE = 0
        THEN [panicked |-> TRUE, size |-> <<width, height>>, pixels |-> blank]
        ELSE [panicked |-> FALSE,
              size |-> <<width, height>>,
              pixels |-> paint_subtiles(ts, g, blank, tiles_per_row,
                                        SubtileJobs(blocks_per_row, n_rows), 1)]

\* The tilesets composited: a palette that is empty, that ends inside its
\* second line, or that has all 128 colours; eleven tiles, so that the
\* tiletable names tiles that exist (5..10) and tiles that do not (11, 12).
PaletteLens == {0, 20, 128}
GfxLen == 11
PaletteOf(n) == [i \in 1..n |-> (i * 1237 + 31) % 2^15]
GfxOf(n) == [i \in 1..n |-> TileWith(i % 8, <<27, 128, 255, 16 * i + 1>>)]
ComposeSources ==
    {[palette |-> PaletteOf(n), gfx |-> GfxOf(GfxLen), tiletable |-> Tiletable(f)] :
        n \in PaletteLens, f \in {0, 3}}
\* the grids a GridModel of the program can be: at least one column (the
\* models of the program have 16 or 32), any number of rows
ComposeGrids ==
    {GridOf(w, h, k) : w \in 1..MaxBlocksPerRow, h \in 0..MaxBlockRows,
                       k \in 0..(Len(BlockCells) - 1)}

ComposeInit ==
    /\ source \in ComposeSources
    /\ grid \in ComposeGrids
    /\ composed = None
    /\ NotComposeIdle

\* tiletable_to_image(&tileset, &model)
TiletableToImage ==
    /\ composed = None
    /\ composed' = Some(tiletable_to_image(source, grid))
    /\ UNCHANGED <<source, grid>>
    /\ UNCHANGED notComposeVars

ComposeNext == TiletableToImage

SpecCompose == ComposeInit /\ [][ComposeNext]_vars

(***************************************************************************)
(* Snes4BppTile::tiles_to_image (src/gfx.rs): a list of tiles composited   *)
(* tiles_per_row to a row with one palette line.                           *)
(***************************************************************************)
\* slivers taken one after another instead of every tiles_per_row-th
tile_slivers_contiguous(per_row, row, column) ==
    LET row_start == row * (per_row * TILE_SIZE)
    IN  [n \in 0..7 |-> row_start + Min(column * TILE_SIZE + n, per_row * TILE_SIZE - 1)]

\* the slivers of the tile in `column` of tile row `row`:
\* row_slivers[column..].iter_mut().step_by(tiles_per_row)
tile_slivers(per_row, row, column) ==
    LET row_start == row * (per_row * TILE_SIZE)
        count == ((per_row * TILE_SIZE - column) + per_row - 1) \div per_row
    IN  [n \in 0..(count - 1) |-> row_start + column + n * per_row]

\* tile.write_to_image::<false, false>(&palette_c32, output_slivers) for the
\* n-th tile of the list
paint_tile(tiles, palette_c32, pixels, per_row, n) ==
    LET slivers == tile_slivers(per_row, (n - 1) \div per_row, (n - 1) % per_row)
        rows == Min(8, Cardinality(DOMAIN slivers))
        before == [y \in 0..(rows - 1) |-> [x \in 0..7 |->
                      pixels[TILE_SIZE * slivers[y] + x]]]
        after == write_to_image(tiles[n], palette_c32, before, Forward, FALSE, FALSE)
        written == [q \in {TILE_SIZE * slivers[y] + x : y \in 0..(rows - 1), x \in 0..7} |->
                       after[CHOOSE y \in 0..(rows - 1) :
                                 q \div TILE_SIZE = slivers[y]][q % TILE_SIZE]]
    IN  written @@ pixels

RECURSIVE paint_tiles(_, _, _, _, _)
paint_tiles(tiles, palette_c32, pixels, per_row, n) ==
    IF n > Len(tiles) THEN pixels
    ELSE paint_tiles(tiles, palette_c32,
                     paint_tile(tiles, palette_c32, pixels, per_row, n), per_row, n + 1)

\* tiles_to_image over a buffer that starts as opaque black
tiles_to_image_black(tiles, pal, per_row) ==
    LET n_rows == (Len(tiles) + per_row - 1) \div per_row
        width == per_row * TILE_SIZE
        height == n_rows * TILE_SIZE
        black == [q \in 0..(width * height - 1) |-> from_rgb(0, 0, 0)]
        palette_c32 == [i \in 0..(LINE_4BPP_LEN - 1) |-> Color32_from(pal[i + 1])]
    IN  [panicked |-> FALSE,
         size |-> <<width, height>>,
         pixels |-> paint_tiles(tiles, palette_c32, black, per_row, 1)]

\* tiles_to_image(tiles, palette, tiles_per_row).  div_ceil panics on a
\* divisor of 0.
tiles_to_image(tiles, pal, per_row) ==
    LET n_rows == (Len(tiles) + per_row - 1) \div per_row
        width == per_row * TILE_SIZE
        height == n_rows * TILE_SIZE
        blank == [q \in 0..(width * height - 1) |-> TRANSPARENT]
        palette_c32 == [i \in 0..(LINE_4BPP_LEN - 1) |-> Color32_from(pal[i + 1])]
    IN  IF per_row = 0
        THEN [panicked |-> TRUE, size |-> <<0, 0>>, pixels |-> <<>>]
        ELSE [panicked |-> FALSE,
              size |-> <<width, height>>,
              pixels |-> paint_tiles(tiles, palette_c32, blank, per_row, 1)]

MaxTiles == 3
MaxTilesPerRow == 2
\* the tile of 32 zero bytes (every pixel has index 0) and a tile with
\* every index in it
ZeroTile == [i \in 1..32 |-> 0]
SheetTileKinds == {ZeroTile, TileWith(0, <<27, 128, 255, 1>>)}
\* palette lines that differ in entry 0: pure red with bit 15 clear and set,
\* black, and a mixed colour
SheetFirstColors == {31, 2^15 + 31, 0, 31 + 32 * 7}
SheetPaletteOf(first) == [i \in 1..LINE_4BPP_LEN |-> IF i = 1 THEN first ELSE 1057 * i]

SheetInit ==
    /\ sheetTiles \in UNION {[1..n -> SheetTileKinds] : n \in 0..MaxTiles}
    /\ sheetPalette \in {SheetPaletteOf(c) : c \in SheetFirstColors}
    /\ perRow \in 1..MaxTilesPerRow
    /\ sheet = None
    /\ NotSheetIdle

\* Snes4BppTile::tiles_to_image(&tiles, &palette, tiles_per_row)
TilesToImage ==
    /\ sheet = None
    /\ sheet' = Some(tiles_to_image(sheetTiles, sheetPalette, perRow))
    /\ UNCHANGED <<sheetTiles, sheetPalette, perRow>>
    /\ UNCHANGED notSheetVars

SheetNext == TilesToImage

SpecSheet == SheetInit /\ [][SheetNext]_vars

(***************************************************************************)
(* Palette::truncate_checked (src/gfx.rs).                                 *)
(***************************************************************************)
\* truncate_checked(new_len): the palette afterwards and Ok or Err
truncate_checked(p, new_len) ==
    IF new_len > Len(p) \/ \E i \in (new_len + 1)..Len(p) : p[i] # 0
    THEN [palette |-> p, result |-> "Err"]
    ELSE [palette |-> SubSeq(p, 1, new_len), result |-> "Ok"]

MaxPaletteLen == 4
\* the zero colour and two others
PaletteColors == {0, 31, 2^15}

PaletteInit ==
    /\ colors \in UNION {[1..n -> PaletteColors] : n \in 0..MaxPaletteLen}
    /\ truncated = None
    /\ NotPaletteIdle

\* palette.truncate_checked(new_len)
TruncateChecked(new_len) ==
    LET r == truncate_checked(colors, new_len)
    IN  /\ colors' = r.palette
        /\ truncated' = Some([before |-> colors, new_len |-> new_len, result |-> r.result])
        /\ UNCHANGED notPaletteVars

PaletteNext == \E new_len \in 0..(MaxPaletteLen + 1) : TruncateChecked(new_len)

SpecPalette == PaletteInit /\ [][PaletteNext]_vars

(***************************************************************************)
(* TilemapEntry::for_tile and with_palette (src/project.rs).               *)
(***************************************************************************)
\* for_tile with a plain `tile as u16` in place of the 10-bit mask
for_tile_unmasked(t) == t % 2^16

\* for_tile: Self((tile & ((1 << 10) - 1)) as u16)
for_tile(t) == (t % 2^10) % 2^16

\* BitField::set_bits(lo..hi, value) on a u16: it asserts that the value
\* fits into the range and then replaces the bits of the range
set_bits(w, lo, hi, value) ==
    IF value >= 2^(hi - lo)
    THEN [panicked |-> TRUE, word |-> w]
    ELSE [panicked |-> FALSE,
          word |-> w - get_bits(w, lo, hi) * 2^lo + value * 2^lo]

\* with_palette: self.0.set_bits(10..13, pal as u16)
with_palette(e, pal) == set_bits(e, 10, 13, pal % 2^16)

\* tile numbers below, at and above the 10-bit limit, and beyond 16 bits
TileNumbers == {0, 1, 682, 1023, 1024, 1025, 2047, 2^16 + 5, 2^20 + 1023}
\* entries as the tiletable data can hold them
TilemapWords ==
    {TilemapWord(id, pal, pri, h, v) :
        id \in {0, 682, 1023}, pal \in {0, 5, 7}, pri \in BOOLEAN,
        h \in BOOLEAN, v \in BOOLEAN}
\* the palette arguments: the eight lines and the first value that does not fit
PaletteArgs == 0..8

EntryInit ==
    /\ tilemapEntry \in {None} \cup {Some(w) : w \in TilemapWords}
    /\ made = None
    /\ NotEntryIdle

\* TilemapEntry::for_tile(tile)
ForTile(t) ==
    /\ tilemapEntry = None
    /\ tilemapEntry' = Some(for_tile(t))
    /\ made' = Some([op |-> "for_tile", arg |-> t, before |-> None, panicked |-> FALSE])
    /\ UNCHANGED notEntryVars

\* entry.with_palette(pal)
WithPalette(pal) ==
    LET r == with_palette(Unwrap(tilemapEntry), pal)
    IN  /\ IsSome(tilemapEntry)
        /\ ~(IsSome(made) /\ Unwrap(made).panicked)
        /\ tilemapEntry' = Some(r.word)
        /\ made' = Some([op |-> "with_palette", arg |-> pal, before |-> tilemapEntry,
                         panicked |-> r.panicked])
        /\ UNCHANGED notEntryVars

EntryNext ==
    \/ \E t \in TileNumbers : ForTile(t)
    \/ \E pal \in PaletteArgs : WithPalette(pal)

SpecEntry == EntryInit /\ [][EntryNext]_vars

(***************************************************************************)
(* HexValue::from_str (src/hex_types.rs).  A string is the sequence of its *)
(* characters; a u32 is <<high 16 bits, low 16 bits>>.                     *)
(***************************************************************************)
\* char::to_digit(16)
HexDigits ==
    [c \in {"0", "1", "2", "3", "4", "5", "6", "7", "8", "9",
            "a", "b", "c", "d", "e", "f", "A", "B", "C", "D", "E", "F"} |->
        CASE c \in {"a", "A"} -> 10 [] c \in {"b", "B"} -> 11
          [] c \in {"c", "C"} -> 12 [] c \in {"d", "D"} -> 13
          [] c \in {"e", "E"} -> 14 [] c \in {"f", "F"} -> 15
          [] c = "0" -> 0 [] c = "1" -> 1 [] c = "2" -> 2 [] c = "3" -> 3
          [] c = "4" -> 4 [] c = "5" -> 5 [] c = "6" -> 6 [] c = "7" -> 7
          [] c = "8" -> 8 [] c = "9" -> 9]
to_digit(c) == IF c \in DOMAIN HexDigits THEN Some(HexDigits[c]) ELSE None

Ok(v) == [ok |-> TRUE, value |-> v]
Err(kind) == [ok |-> FALSE, kind |-> kind]

\* the digit loop of from_str_radix: result * 16 + digit for each character,
\* InvalidDigit at a character that is no digit, PosOverflow past 32 bits
RECURSIVE from_digits(_, _, _)
from_digits(digits, n, acc) ==
    IF n > Len(digits) THEN Ok(acc)
    ELSE LET x == to_digit(digits[n])
             lo == acc[2] * 16 + (IF IsSome(x) THEN Unwrap(x) ELSE 0)
             hi == acc[1] * 16 + (lo \div Half)
         IN  IF ~IsSome(x) THEN Err("InvalidDigit")
             ELSE IF hi >= Half THEN Err("PosOverflow")
             ELSE from_digits(digits, n + 1, <<hi, lo % Half>>)

\* u32::from_str_radix(src, 16): an empty string is Empty, a lone sign is
\* InvalidDigit, one leading '+' is accepted
u32_from_str_radix(src) ==
    IF Len(src) = 0 THEN Err("Empty")
    ELSE IF src = <<"+">> \/ src = <<"-">> THEN Err("InvalidDigit")
    ELSE from_digits(IF src[1] = "+" THEN Tail(src) ELSE src, 1, <<0, 0>>)

\* s.strip_prefix('$').unwrap_or(s)
strip_prefix(str) == IF Len(str) > 0 /\ str[1] = "$" THEN Tail(str) ELSE str

Byte(v) == [variant |-> "Byte", value |-> v]
Word(v) == [variant |-> "Word", value |-> v]
Long(v) == [variant |-> "Long", value |-> v]

\* <HexValue as FromStr>::from_str.  count is trimmed.chars().count(); the
\* arm for 0 is not reached, an empty string having failed to parse.
HexValue_from_str(str) ==
    LET trimmed == strip_prefix(str)
        val == u32_from_str_radix(trimmed)
        count == Len(trimmed)
    IN  IF ~val.ok THEN val
        ELSE IF count \in 1..2 THEN Ok(Byte(val.value[2] % 2^8))
        ELSE IF count \in 3..4 THEN Ok(Word(val.value[2]))
        ELSE IF count \in 5..6 THEN Ok(Long(val.value[1] * Half + val.value[2]))
        ELSE Err("PosOverflow")

MaxStrLen == 8
\* the characters of the strings parsed: two hex digits, the prefix and the
\* sign from_str_radix accepts (neither is a digit anywhere but in front)
HexChars == {"$", "+", "0", "B"}

HexInit ==
    /\ text \in UNION {[1..n -> HexChars] : n \in 0..MaxStrLen}
    /\ parsed = None
    /\ NotHexIdle

\* HexValue::from_str(text)
FromStr ==
    /\ parsed = None
    /\ parsed' = Some(HexValue_from_str(text))
    /\ UNCHANGED text
    /\ UNCHANGED notHexVars

HexNext == FromStr

SpecHex == HexInit /\ [][HexNext]_vars

(***************************************************************************)
(* Promise (src/ui/promise.rs).  A future is the record of its number and  *)
(* of its task: "Pending" until the worker finishes, then "Ready" with the *)
(* output.  An output names the future it is from; the response of the n-th *)
(* set_response call is from -n.                                           *)
(***************************************************************************)
MaxLaunches == 2
MaxSets == 1

\* Future::poll: Poll::Ready(output) or Poll::Pending
poll(f) == IF f.task = "Ready" THEN Some(f.output) ELSE None

\* poll_future that stores the result and keeps the future
poll_future_keep(fut, res) ==
    IF IsSome(fut) /\ IsSome(poll(Unwrap(fut)))
    THEN [future |-> fut, last_result |-> Some(Unwrap(poll(Unwrap(fut)))),
          polled_ready |-> {Unwrap(fut).id}]
    ELSE [future |-> fut, last_result |-> res, polled_ready |-> {}]

\* poll_future: polls the future if there is one; on Poll::Ready it clears
\* the future and stores the result.  polled_ready: the future whose poll
\* returned Ready, if any.
poll_future(fut, res) ==
    IF IsSome(fut) /\ IsSome(poll(Unwrap(fut)))
    THEN [future |-> None, last_result |-> Some(Unwrap(poll(Unwrap(fut)))),
          polled_ready |-> {Unwrap(fut).id}]
    ELSE [future |-> fut, last_result |-> res, polled_ready |-> {}]

\* the count of `k` in a history map raised by one
Counted(h, k) ==
    [x \in DOMAIN h \cup {k} |-> IF x = k THEN (IF k \in DOMAIN h THEN h[k] ELSE 0) + 1
                                 ELSE h[x]]
CountedAll(h, ks) ==
    [x \in DOMAIN h \cup ks |->
        IF x \in ks THEN (IF x \in DOMAIN h THEN h[x] ELSE 0) + 1 ELSE h[x]]

\* Promise::new(waker)
PromiseInit ==
    /\ future = None
    /\ last_result = None
    /\ ret = None
    /\ readyPolls = EmptyMap
    /\ handed = EmptyMap
    /\ nLaunched = 0
    /\ nSet = 0
    /\ NotPromiseIdle

\* promise.launch(future): a future whose task has just been started
Launch ==
    /\ nLaunched < MaxLaunches
    /\ nLaunched' = nLaunched + 1
    /\ future' = Some([id |-> nLaunched + 1, task |-> "Pending", output |-> None])
    /\ ret' = Some([op |-> "launch", value |-> None])
    /\ UNCHANGED <<last_result, readyPolls, handed, nSet>>
    /\ UNCHANGED notPromiseVars

\* the worker finishes the task of the launched future with an output
TaskFinishes(out) ==
    /\ IsSome(future)
    /\ Unwrap(future).task = "Pending"
    /\ future' = Some([id |-> Unwrap(future).id, task |-> "Ready",
                       output |-> [from |-> Unwrap(future).id, out |-> out]])
    /\ UNCHANGED <<last_result, ret, readyPolls, handed, nLaunched, nSet>>
    /\ UNCHANGED notPromiseVars

\* promise.is_pending()
IsPending ==
    /\ ret' = Some([op |-> "is_pending", value |-> IsSome(future)])
    /\ UNCHANGED <<future, last_result, readyPolls, handed, nLaunched, nSet>>
    /\ UNCHANGED notPromiseVars

\* promise.set_response(response)
SetResponse ==
    /\ nSet < MaxSets
    /\ nSet' = nSet + 1
    /\ last_result' = Some([from |-> 0 - (nSet + 1), out |-> "Err"])
    /\ ret' = Some([op |-> "set_response", value |-> None])
    /\ UNCHANGED <<future, readyPolls, handed, nLaunched>>
    /\ UNCHANGED notPromiseVars

\* promise.response(): poll_future, then last_result.as_ref()
Response ==
    LET polled == poll_future(future, last_result)
    IN  /\ future' = polled.future
        /\ last_result' = polled.last_result
        /\ readyPolls' = CountedAll(readyPolls, polled.polled_ready)
        /\ ret' = Some([op |-> "response", value |-> polled.last_result])
        /\ UNCHANGED <<handed, nLaunched, nSet>>
        /\ UNCHANGED notPromiseVars

\* promise.take_response(): poll_future, then last_result.take()
TakeResponse ==
    LET polled == poll_future(future, last_result)
    IN  /\ future' = polled.future
        /\ last_result' = None
        /\ readyPolls' = CountedAll(readyPolls, polled.polled_ready)
        /\ handed' = IF IsSome(polled.last_result)
                     THEN Counted(handed, Unwrap(polled.last_result))
                     ELSE handed
        /\ ret' = Some([op |-> "take_response", value |-> polled.last_result])
        /\ UNCHANGED <<nLaunched, nSet>>
        /\ UNCHANGED notPromiseVars

PromiseNext ==
    \/ Launch
    \/ \E out \in {"Ok", "Err"} : TaskFinishes(out)
    \/ IsPending
    \/ SetResponse
    \/ Response
    \/ TakeResponse

SpecPromise == PromiseInit /\ [][PromiseNext]_vars

(***************************************************************************)
(* Bit-plane decoding called function by function (src/gfx.rs):            *)
(* spread_u8_x4 on a byte, decode_bitplanes on four bytes, and the row     *)
(* loop of write_to_image on one row of a tile.  Each behaviour makes one  *)
(* call.                                                                   *)
(***************************************************************************)
\* bitplane bytes given to decode_bitplanes
PlaneBytes == {0, 1, 27, 128, 165, 255}

\* the tiles whose rows are decoded
DecodeTiles == {TileWith(r, <<27, 128, b, 255>>) : r \in {0, 3, 7}, b \in PlaneBytes}

DecodeInit ==
    /\ planeTile \in DecodeTiles
    /\ decoded = None
    /\ NotDecodeIdle

\* spread_u8_x4(x)
SpreadU8x4(x) ==
    /\ decoded = None
    /\ decoded' = Some([call |-> "spread_u8_x4", arg |-> <<x>>,
                        word |-> spread_u8_x4(x), indices |-> <<>>])
    /\ UNCHANGED planeTile
    /\ UNCHANGED notDecodeVars

\* decode_bitplanes(bitplanes)
DecodeBitplanes(bitplanes) ==
    /\ decoded = None
    /\ decoded' = Some([call |-> "decode_bitplanes", arg |-> bitplanes,
                        word |-> decode_bitplanes(bitplanes), indices |-> <<>>])
    /\ UNCHANGED planeTile
    /\ UNCHANGED notDecodeVars

\* the r-th turn of the row loop of write_to_image::<false, _>: the item of
\* bitplane_sets, its row word, and the index of each of the 8 pixels
DecodeRow(r) ==
    LET bitplanes == bitplane_sets(planeTile)[r]
        bp == decode_bitplanes(bitplanes)
    IN  /\ decoded = None
        /\ decoded' = Some([call |-> "row", arg |-> <<r>> \o bitplanes, word |-> bp,
                            indices |-> [x \in 1..8 |-> PixelIndex(bp, x - 1, FALSE)]])
        /\ UNCHANGED planeTile
        /\ UNCHANGED notDecodeVars

DecodeNext ==
    \/ \E x \in 0..255 : SpreadU8x4(x)
    \/ \E bitplanes \in [1..4 -> PlaneBytes] : DecodeBitplanes(bitplanes)
    \/ \E r \in 0..7 : DecodeRow(r)

SpecDecode == DecodeInit /\ [][DecodeNext]_vars

(***************************************************************************)
(* Application and its StartupDialog (src/main.rs,                         *)
(* src/ui/views/startup_dialog.rs).  One Application::update is one        *)
(* action; the tasks started with unblock and the file picker finish in    *)
(* actions of their own.  A promise is the record of its fields future and *)
(* last_result, polled with poll_future as above.  Paths are "" (the empty *)
(* PathBuf), a directory that validates and one that does not.             *)
(***************************************************************************)
ProjectPaths == {"", "good", "bad"}

\* validate_smart_project_path(&picked_path)
validate_smart_project_path(path) == IF path = "good" THEN "Ok" ELSE "Err"

\* Promise::new(waker)
Promise_new == [future |-> None, last_result |-> None]
\* a future just handed to launch: its task has not finished
Unfinished(id) == [id |-> id, task |-> "Pending", output |-> None]
\* promise.launch(future)
launch(promise, fut) == [future |-> Some(fut), last_result |-> promise.last_result]
\* Promise::launched(waker, future)
Promise_launched(fut) == launch(Promise_new, fut)
\* promise.set_response(response)
set_response(promise, response) == [future |-> promise.future, last_result |-> Some(response)]

\* StartupDialog::new(ctx)
StartupDialog_new ==
    [picked_path_new |-> Promise_new,
     picked_path |-> "",
     path_validation_result |-> Promise_new]
\* StartupDialog::with_error_message(ctx, err)
StartupDialog_with_error_message ==
    [picked_path_new |-> Promise_new,
     picked_path |-> "",
     path_validation_result |->
         set_response(Promise_new, [from |-> "load_project", out |-> "Err"])]

\* the match of Application::update that leaves a pending load in Invalid
next_state_dropping(state, should_close, project) ==
    CASE state = "NoOpenProject" ->
             IF should_close THEN "LoadingProject" ELSE "NoOpenProject"
      [] state = "LoadingProject" ->
             IF IsSome(project)
             THEN IF Unwrap(project).out = "Ok" THEN "ProjectLoaded" ELSE "NoOpenProject"
             ELSE "Invalid"
      [] state = "ProjectLoaded" -> "ProjectLoaded"

\* the match of Application::update: the variant stored back into self.state.
\* `should_close` is modal_response.response.should_close() and `project` is
\* promise.take_response().  The Invalid arm is unreachable!().
next_state(state, should_close, project) ==
    CASE state = "NoOpenProject" ->
             IF should_close THEN "LoadingProject" ELSE "NoOpenProject"
      [] state = "LoadingProject" ->
             IF IsSome(project)
             THEN IF Unwrap(project).out = "Ok" THEN "ProjectLoaded" ELSE "NoOpenProject"
             ELSE "LoadingProject"
      [] state = "ProjectLoaded" -> "ProjectLoaded"

\* what the user does in one frame of the dialog: nothing, a click on Open or
\* Browse, an edit of the path field, or closing the modal (Escape, a click
\* on the backdrop)
DialogInputs ==
    {[do |-> a, path |-> ""] : a \in {"nothing", "open", "browse", "dismiss"}}
    \cup {[do |-> "edit", path |-> q] : q \in ProjectPaths}

\* StartupDialog::show_contents for one input: the dialog afterwards and
\* what the frame showed
show_contents(dlg, input) ==
    LET \* if let Some(res) = self.picked_path_new.take_response() && let Some(p) = res
        picked == poll_future(dlg.picked_path_new.future, dlg.picked_path_new.last_result)
        adopted == IsSome(picked.last_result) /\ IsSome(Unwrap(picked.last_result).out)
        path_picked == IF adopted THEN Unwrap(Unwrap(picked.last_result).out)
                       ELSE dlg.picked_path
        \* add_enabled(matches!(self.path_validation_result.response(), Some(Ok(()))), Open)
        validated == poll_future(dlg.path_validation_result.future,
                                 dlg.path_validation_result.last_result)
        open_enabled == /\ IsSome(validated.last_result)
                        /\ Unwrap(validated.last_result).out = "Ok"
        \* add_enabled(!self.picked_path_new.is_pending(), Browse)
        browse_enabled == ~IsSome(picked.future)
        picker == IF input.do = "browse"
                  THEN launch([future |-> picked.future, last_result |-> None],
                              Unfinished("pick_folder"))
                  ELSE [future |-> picked.future, last_result |-> None]
        \* TextEdit::singleline(..).changed()
        edited == input.do = "edit"
        picked_path == IF edited THEN input.path ELSE path_picked
        path_changed == adopted \/ edited
        checked == [future |-> validated.future, last_result |-> validated.last_result]
    IN  [possible |-> /\ input.do = "open" => open_enabled
                      /\ input.do = "browse" => browse_enabled
                      /\ input.do = "edit" => input.path # path_picked,
         dialog |-> [picked_path_new |-> picker,
                     picked_path |-> picked_path,
                     path_validation_result |->
                         IF path_changed THEN launch(checked, Unfinished(picked_path))
                         ELSE checked],
         should_close |-> input.do \in {"open", "dismiss"},
         open_enabled |-> open_enabled,
         shown |-> validated.last_result,
         pending |-> IsSome(validated.future),
         path_shown |-> path_picked]

\* what an update that shows no dialog records of the dialog
NoDialog ==
    [open_enabled |-> FALSE, shown |-> None, pending |-> FALSE, path_shown |-> ""]

\* Application::new(cc) or Application::with_opened_project(cc, project_path)
AppInit ==
    /\ \/ /\ appState = "NoOpenProject"
          /\ dialog = Some(StartupDialog_new)
          /\ loading = None
       \/ /\ appState = "LoadingProject"
          /\ dialog = None
          /\ loading \in {Some(Promise_launched(Unfinished(q))) : q \in ProjectPaths}
    /\ appLast = None
    /\ open_editors = <<>>
    /\ showLast = None
    /\ NotAppIdle

\* Application::update while the state is NoOpenProject
UpdateNoOpenProject(input) ==
    LET shown == show_contents(Unwrap(dialog), input)
        to == next_state(appState, shown.should_close, None)
    IN  /\ appState = "NoOpenProject"
        /\ shown.possible
        /\ appState' = to
        /\ dialog' = IF to = "NoOpenProject" THEN Some(shown.dialog) ELSE None
        \* ApplicationUiState::load_project(ctx, startup_dialog.get_result())
        /\ loading' = IF to = "LoadingProject"
                      THEN Some(Promise_launched(Unfinished(shown.dialog.picked_path)))
                      ELSE None
        /\ appLast' = Some([from |-> appState, to |-> to, input |-> input.do,
                            project |-> None,
                            open_enabled |-> shown.open_enabled, shown |-> shown.shown,
                            pending |-> shown.pending, path_shown |-> shown.path_shown])
        /\ UNCHANGED <<open_editors, showLast>>
        /\ UNCHANGED notAppVars

\* Application::update while the state is LoadingProject
UpdateLoadingProject ==
    LET promise == Unwrap(loading)
        polled == poll_future(promise.future, promise.last_result)
        \* promise.take_response()
        project == polled.last_result
        to == next_state(appState, FALSE, project)
    IN  /\ appState = "LoadingProject"
        /\ appState' = to
        /\ loading' = IF to = "LoadingProject"
                      THEN Some([future |-> polled.future, last_result |-> None])
                      ELSE None
        /\ dialog' = IF to = "NoOpenProject" THEN Some(StartupDialog_with_error_message)
                     ELSE None
        /\ appLast' = Some([from |-> appState, to |-> to, input |-> "nothing",
                            project |-> project] @@ NoDialog)
        \* Workspace::new(project): no editor is open
        /\ UNCHANGED <<open_editors, showLast>>
        /\ UNCHANGED notAppVars

(***************************************************************************)
(* Workspace (src/ui/views/workspace.rs).  An editor is its kind, the room  *)
(* or tileset it edits and, for a tileset editor, the palette line chosen  *)
(* with its slider.                                                        *)
(***************************************************************************)
\* the rooms and the tilesets of project_data that the side panel lists
RoomRefs == {1}
TilesetRefs == {1, 2}
PalLines == {0, 1}
\* RoomEditor::new(room_ref)
RoomEditor_new(room) == [kind |-> "RoomEditor", ref |-> room, pal_line |-> 0]
\* TilesetEditor::new(ctx, tileset_ref, project_data)
TilesetEditor_new(tileset) == [kind |-> "TilesetEditor", ref |-> tileset, pal_line |-> 0]
\* the editors the buttons of the side panel make
NewEditors ==
    {RoomEditor_new(r) : r \in RoomRefs} \cup {TilesetEditor_new(r) : r \in TilesetRefs}
\* editor.stable_id(): Id::new(ID_SALT).with(self.room) or .with(self.tileset)
stable_id(editor) == <<editor.kind, editor.ref>>
\* self.open_editors.iter().map(|e| e.stable_id())
stable_ids(editors) == [i \in 1..Len(editors) |-> stable_id(editors[i])]

\* open_editor that pushes the editor whether or not its id is open
open_editor_pushing(editors, editor) ==
    [open_editors |-> Append(editors, editor), moved_to_top |-> None]

\* Workspace::open_editor: the list afterwards and the layer moved to the top
open_editor(editors, editor) ==
    LET editor_id == stable_id(editor)
        existing == {i \in 1..Len(editors) : stable_id(editors[i]) = editor_id}
    IN  IF existing # {}
        THEN [open_editors |-> editors, moved_to_top |-> Some(editor_id)]
        ELSE [open_editors |-> Append(editors, editor), moved_to_top |-> None]

\* editor.show_window for one frame: the slider of a tileset editor may set
\* pal_line
show_window(editor, slid) ==
    IF IsSome(slid) /\ Unwrap(slid)[1] = stable_id(editor)
    THEN [editor EXCEPT !.pal_line = Unwrap(slid)[2]]
    ELSE editor

\* self.open_editors.retain_mut(|editor| ..): every window is shown, in
\* order, and the editors whose window reports closed are dropped
retain_mut(editors, slid, closing) ==
    LET windows == [i \in 1..Len(editors) |-> show_window(editors[i], slid)]
        stays(editor) == stable_id(editor) \notin closing
    IN  SelectSeq(windows, stays)

\* what the user does in one frame of the workspace: a click on a button of
\* the side panel or none, a move of one palette slider or none, and the
\* windows that report closed
ShowInputs ==
    [clicked : {None} \cup {Some(e) : e \in NewEditors},
     slid : {None} \cup {Some(<<stable_id(e), l>>) :
                           e \in {x \in NewEditors : x.kind = "TilesetEditor"},
                           l \in PalLines},
     closing : SUBSET {stable_id(e) : e \in NewEditors}]

\* Workspace::show
Workspace_show(editors, input) ==
    LET opened == IF IsSome(input.clicked)
                  THEN open_editor(editors, Unwrap(input.clicked))
                  ELSE [open_editors |-> editors, moved_to_top |-> None]
    IN  [possible |-> /\ IsSome(input.slid) =>
                             \E i \in 1..Len(opened.open_editors) :
                                 /\ stable_id(opened.open_editors[i]) = Unwrap(input.slid)[1]
                                 /\ opened.open_editors[i].pal_line # Unwrap(input.slid)[2]
                      /\ input.closing \subseteq
                             {stable_id(opened.open_editors[i]) :
                                  i \in 1..Len(opened.open_editors)},
         after_open |-> opened.open_editors,
         moved_to_top |-> opened.moved_to_top,
         open_editors |-> retain_mut(opened.open_editors, input.slid, input.closing)]

\* Application::update while the state is ProjectLoaded: workspace.show(ctx)
UpdateProjectLoaded(input) ==
    LET shown == Workspace_show(open_editors, input)
    IN  /\ appState = "ProjectLoaded"
        /\ shown.possible
        /\ appState' = next_state(appState, FALSE, None)
        /\ appLast' = Some([from |-> appState, to |-> next_state(appState, FALSE, None),
                            input |-> "nothing", project |-> None] @@ NoDialog)
        /\ open_editors' = shown.open_editors
        /\ showLast' = Some([before |-> open_editors, input |-> input,
                             after_open |-> shown.after_open,
                             moved_to_top |-> shown.moved_to_top])
        /\ UNCHANGED <<dialog, loading>>
        /\ UNCHANGED notAppVars

\* a future with its task finished
Finished(fut, out) ==
    [id |-> fut.id, task |-> "Ready", output |-> [from |-> fut.id, out |-> out]]

\* rfd's pick_folder() resolves: a folder, or None when cancelled
PickFolderFinishes(picked) ==
    LET dlg == Unwrap(dialog)
        fut == dlg.picked_path_new.future
    IN  /\ IsSome(dialog)
        /\ IsSome(fut)
        /\ Unwrap(fut).task = "Pending"
        /\ dialog' = Some([dlg EXCEPT !.picked_path_new.future =
                                          Some(Finished(Unwrap(fut), picked))])
        /\ UNCHANGED <<appState, loading, appLast, open_editors, showLast>>
        /\ UNCHANGED notAppVars

\* the task of unblock(validate_smart_project_path) finishes
ValidationFinishes ==
    LET dlg == Unwrap(dialog)
        fut == dlg.path_validation_result.future
    IN  /\ IsSome(dialog)
        /\ IsSome(fut)
        /\ Unwrap(fut).task = "Pending"
        /\ dialog' = Some([dlg EXCEPT !.path_validation_result.future =
                              Some(Finished(Unwrap(fut),
                                            validate_smart_project_path(Unwrap(fut).id)))])
        /\ UNCHANGED <<appState, loading, appLast, open_editors, showLast>>
        /\ UNCHANGED notAppVars

\* the task of unblock(load_smart_project) finishes
LoadFinishes(out) ==
    LET fut == Unwrap(loading).future
    IN  /\ IsSome(loading)
        /\ IsSome(fut)
        /\ Unwrap(fut).task = "Pending"
        /\ loading' = Some([Unwrap(loading) EXCEPT !.future = Some(Finished(Unwrap(fut), out))])
        /\ UNCHANGED <<appState, dialog, appLast, open_editors, showLast>>
        /\ UNCHANGED notAppVars

AppNext ==
    \/ \E input \in DialogInputs : UpdateNoOpenProject(input)
    \/ UpdateLoadingProject
    \/ \E input \in ShowInputs : UpdateProjectLoaded(input)
    \/ \E picked \in {None} \cup {Some(q) : q \in ProjectPaths \ {""}} :
           PickFolderFinishes(picked)
    \/ ValidationFinishes
    \/ \E out \in {"Ok", "Err"} : LoadFinishes(out)

SpecApp == AppInit /\ [][AppNext]_vars

(***************************************************************************)
(* Palette import: rgb_to_snes (src/smart_xml.rs) and what as_rgb_5bpc     *)
(* (src/gfx.rs) reads back.                                                *)
(***************************************************************************)
\* the value of a word kept as its set of set bits, bits 0..k
RECURSIVE BitsValue(_, _)
BitsValue(x, k) ==
    IF k < 0 THEN 0 ELSE (IF k \in x THEN 2^k ELSE 0) + BitsValue(x, k - 1)

\* rgb_to_snes with the green channel shifted into place at full width
rgb_to_snes_wide(c) ==
    BitsValue(BitOr(BitOr(BitsOf(c[1] \div 2^3),
                          BitsOf((c[2] * 2^5) % 2^16)),
                    BitsOf(((c[3] \div 2^3) * 2^10) % 2^16)), 15)

\* (u16::from(r) >> 3) | (u16::from(g) >> 3 << 5) | (u16::from(b) >> 3 << 10)
rgb_to_snes(c) ==
    BitsValue(BitOr(BitOr(BitsOf(c[1] \div 2^3),
                          BitsOf(((c[2] \div 2^3) * 2^5) % 2^16)),
                    BitsOf(((c[3] \div 2^3) * 2^10) % 2^16)), 15)

\* the test before the warning: (r | g | b) & 0b111 != 0
excessive_precision(c) ==
    BitAnd(BitOr(BitOr(BitsOf(c[1]), BitsOf(c[2])), BitsOf(c[3])), {0, 1, 2}) # {}

\* bytes at the edges of the 8-wide steps, and triples that sweep one
\* channel over every byte
ImportBytes == {0, 1, 7, 8, 9, 15, 16, 127, 128, 247, 248, 255}
ImportTriples ==
    [1..3 -> ImportBytes]
    \cup {[i \in 1..3 |-> IF i = n THEN v ELSE o] :
             n \in 1..3, v \in 0..255, o \in {0, 255}}

ImportInit ==
    /\ importArg \in {[of |-> "rgb", v |-> c] : c \in ImportTriples}
                   \cup {[of |-> "snes", v |-> <<c>>] : c \in SnesColors}
    /\ importRet = None
    /\ NotImportIdle

\* rgb_to_snes(rgb), and the channels of the SnesColor it makes
RgbToSnes ==
    /\ importArg.of = "rgb"
    /\ importRet = None
    /\ importRet' = Some([word |-> rgb_to_snes(importArg.v),
                          warned |-> excessive_precision(importArg.v),
                          channels |-> as_rgb_5bpc(rgb_to_snes(importArg.v))])
    /\ UNCHANGED importArg
    /\ UNCHANGED notImportVars

\* SnesColor(c).as_rgb_5bpc()
AsRgb5bpc ==
    /\ importArg.of = "snes"
    /\ importRet = None
    /\ importRet' = Some([word |-> importArg.v[1], warned |-> FALSE,
                          channels |-> as_rgb_5bpc(importArg.v[1])])
    /\ UNCHANGED importArg
    /\ UNCHANGED notImportVars

ImportNext == RgbToSnes \/ AsRgb5bpc

SpecImport == ImportInit /\ [][ImportNext]_vars

(***************************************************************************)
(* The flat preview grids FullTilesetGfxModel and FullTiletableModel       *)
(* (src/ui/tile_view.rs).  A model is the record of its struct fields and  *)
(* of which of the two it is.                                              *)
(***************************************************************************)
TILES_PER_ROW == 16
BLOCKS_PER_ROW == 32
MaxFlatLen == 1056

FullTilesetGfxModel(len, palette_index) ==
    [of |-> "gfx", len |-> len, palette_index |-> palette_index]
FullTiletableModel(len) ==
    [of |-> "ttb", len |-> len, palette_index |-> 0]

\* the row length of a model
PerRowOf(m) == IF m.of = "gfx" THEN TILES_PER_ROW ELSE BLOCKS_PER_ROW

\* dimensions: [W, self.len.div_ceil(W)]
flat_dimensions(m) == <<PerRowOf(m), (m.len + PerRowOf(m) - 1) \div PerRowOf(m)>>

\* LevelDataEntry::for_tile(tile): Self(tile & ((1 << 10) - 1))
LevelDataEntry_for_tile(t) == t % 2^10

\* get: (tile_id < self.len).then(|| ...) with
\* TilemapEntry::for_tile(tile_id).with_palette(self.palette_index) or
\* LevelDataEntry::for_tile(tile_id as u16)
flat_get(m, x, y) ==
    LET id == PerRowOf(m) * y + x
    IN  IF id < m.len
        THEN IF m.of = "gfx"
             THEN Some(with_palette(for_tile(id), m.palette_index).word)
             ELSE Some(LevelDataEntry_for_tile(id % 2^16))
        ELSE None

\* the lengths of the models: around a row, around two rows of the wider
\* grid, and around the 1024 ids a 10-bit field can hold
FlatLens == {0, 1, 16, 17, 32, 33, 64, 65, 1023, 1024, 1025, MaxFlatLen}
FlatRows == {0, 1, 2, 3, 31, 32, 33, 63, 64, 65, 66}

FlatInit ==
    /\ flat \in {FullTilesetGfxModel(len, pal) : len \in FlatLens, pal \in {0, 5}}
              \cup {FullTiletableModel(len) : len \in FlatLens}
    /\ flatRet = None
    /\ NotFlatIdle

\* model.dimensions()
FlatDimensions ==
    /\ flatRet' = Some([call |-> "dimensions", x |-> 0, y |-> 0,
                        value |-> flat_dimensions(flat)])
    /\ UNCHANGED flat
    /\ UNCHANGED notFlatVars

\* model.get(x, y)
FlatGet(x, y) ==
    /\ flatRet' = Some([call |-> "get", x |-> x, y |-> y, value |-> flat_get(flat, x, y)])
    /\ UNCHANGED flat
    /\ UNCHANGED notFlatVars

FlatNext ==
    \/ FlatDimensions
    \/ \E x \in 0..BLOCKS_PER_ROW, y \in FlatRows : FlatGet(x, y)

SpecFlat == FlatInit /\ [][FlatNext]_vars

(***************************************************************************)
(* The two compositors of src/gfx.rs side by side: a behaviour composites  *)
(* either a tile list (tiles_to_image) or a block grid                     *)
(* (tiletable_to_image).                                                   *)
(***************************************************************************)
CompositesInit == SheetInit \/ ComposeInit
\* each compositor is called on the input its behaviour has set up
CompositesNext ==
    \/ ~SheetIdle /\ TilesToImage
    \/ ~ComposeIdle /\ TiletableToImage
SpecComposites == CompositesInit /\ [][CompositesNext]_vars

(***************************************************************************)
(* Claims about the texture cache, checked under Spec.                     *)
(***************************************************************************)

\* C1: between two maintenance passes the compute function of a key runs at
\* most once; a request that is not the first for its key since the last
\* update is a hit: it does not run the compute function and returns the
\* texture the cache stores for the key.
C1_ComputeOnce ==
    /\ \A k \in DOMAIN calls : calls[k].computes <= 1
    /\ IsSome(last) =>
          LET l == Unwrap(last)
          IN  (l.key \in DOMAIN calls /\ calls[l.key].requests >= 2) =>
                  /\ ~l.ran
                  /\ l.key \in DOMAIN entries
                  /\ l.got = entries[l.key].value
C1_Witness ==
    /\ IsSome(last)
    /\ Unwrap(last).key \in DOMAIN calls
    /\ calls[Unwrap(last).key].requests >= 2
    /\ calls[Unwrap(last).key].computes = 1

\* C2 (as claimed): after update returns, a key is still cached exactly when
\* its last get or insert happened at most 15 update calls ago.
C2_EvictionThreshold ==
    \A k \in DOMAIN idle : (k \in DOMAIN entries) <=> (idle[k] <= MAX_AGE)

\* C3: a key that was stored or accessed and then saw 16 or more update calls
\* with no get or insert in between is not in the cache.
C3_AgedOut ==
    \A k \in DOMAIN idle : idle[k] >= MAX_AGE + 1 => k \notin DOMAIN entries
C3_Witness ==
    \E k \in DOMAIN idle : idle[k] = MAX_AGE + 1 /\ k \notin DOMAIN entries

\* C4 (as claimed): a texture request receives the texture rendered from its
\* own gfx layout, tiletable layout and palette line.
C4_KeyComplete ==
    IsSome(last) => Unwrap(last).got = Unwrap(last).wanted

\* C19: a key requested since the last update is cached with last_use equal
\* to update_counter, whether the request was a hit or a miss, and a request
\* (get, insert) leaves update_counter as it was.
C19_EpochStamping ==
    /\ [](\A k \in DOMAIN idle :
             idle[k] = 0 => (k \in DOMAIN entries /\ entries[k].last_use = update_counter))
    /\ [][nGets' # nGets => update_counter' = update_counter]_vars
\* a hit on an entry that was stamped before the last update
C19_Witness ==
    /\ IsSome(last)
    /\ ~Unwrap(last).ran
    /\ nUpdates >= 1
    /\ Unwrap(last).key \in DOMAIN calls
    /\ calls[Unwrap(last).key].requests = 1
    /\ idle[Unwrap(last).key] = 0
    /\ entries[Unwrap(last).key].last_use = update_counter

\* whether an entry last used `age` updates ago is kept, from the difference
\* of the two counters alone
RetainedAtAge(age) == retained(U32(0), U32(age))
\* counter differences that move a pair of counters across the u32 boundary
Shifts == {U32(1), <<Half \div 2, 0>>, <<Half - 1, Half - MAX_AGE>>, <<Half - 1, Half - 1>>}

\* C20: ageing is safe against wraparound.  Which keys are cached depends
\* only on how many updates ago each was last used, for a counter that wraps
\* as for one that does not; retain gives the same answer for any two
\* counters with the same difference modulo 2^32; and each update advances
\* update_counter by exactly 1 modulo 2^32.
C20_WraparoundSafe ==
    /\ \A k \in DOMAIN idle :
          (k \in DOMAIN entries) <=> (\A age \in 0..(idle[k] - 1) : RetainedAtAge(age))
    /\ \A k \in DOMAIN entries : \A d \in Shifts :
          retained(entries[k].last_use, update_counter)
             = retained(wrapping_add(entries[k].last_use, d), wrapping_add(update_counter, d))
    /\ \E start \in StartCounters :
          LET lo == start[2] + nUpdates
          IN  update_counter = <<(start[1] + (lo \div Half)) % Half, lo % Half>>
\* the counter has wrapped from u32::MAX to 0 and an entry stamped at u32::MAX
\* is still cached
C20_Witness ==
    /\ update_counter = <<0, 0>>
    /\ nUpdates = 3
    /\ \E k \in DOMAIN entries : entries[k].last_use = <<Half - 1, Half - 1>>

(***************************************************************************)
(* Claims about the overlay resolver, checked under SpecLayout.            *)
(***************************************************************************)
SetMax(S) == CHOOSE x \in S : \A y \in S : y <= x
SetMin(S) == CHOOSE x \in S : \A y \in S : x <= y

\* C5: lookup(i) returns (e.tileset, i - e.base) for the matching entry e of
\* the highest list position and None when no entry matches; with entries
\* {base 0, size 10, A} then {base 5, size 10, B}, index 7 resolves to (B, 2).
C5_LookupLastWins ==
    (IsSome(lookupArg) /\ Unwrap(lookupArg).on = "layout") =>
        LET i == Unwrap(lookupArg).i
            matching == {n \in 1..Len(layout) :
                            i >= layout[n].base /\ i - layout[n].base <= layout[n].size}
        IN  /\ matching = {} => lookupRes = None
            /\ matching # {} =>
                   lookupRes = Some(<<layout[SetMax(matching)].tileset,
                                      i - layout[SetMax(matching)].base>>)
            /\ (layout = <<OverlaidLayoutEntry(0, 10, "A"),
                           OverlaidLayoutEntry(5, 10, "B")>> /\ i = 7) =>
                   lookupRes = Some(<<"B", 2>>)
C5_Witness ==
    /\ layout = <<OverlaidLayoutEntry(0, 10, "A"), OverlaidLayoutEntry(5, 10, "B")>>
    /\ lookupArg = Some([on |-> "layout", i |-> 7])
    /\ lookupRes = Some(<<"B", 2>>)

\* the entries of the layout other than the n-th that cover index i, top
\* index base + size included
Covering(n, i) ==
    {m \in (1..Len(layout)) \ {n} :
        layout[m].base <= i /\ i <= layout[m].base + layout[m].size}

\* C21: the match range of an entry is inclusive at the top.  Index
\* base + size resolves to the entry with local offset size unless a later
\* entry covers it, whatever earlier entries cover it; index base + size + 1
\* is not matched by the entry, so it is None when no other entry covers it.
C21_InclusiveTop ==
    (IsSome(lookupArg) /\ Unwrap(lookupArg).on = "layout") =>
        LET i == Unwrap(lookupArg).i
        IN  \A n \in 1..Len(layout) :
               LET e == layout[n]
               IN  /\ (i = e.base + e.size /\ \A m \in Covering(n, i) : m < n) =>
                          lookupRes = Some(<<e.tileset, e.size>>)
                   /\ (i = e.base + e.size + 1 /\ Covering(n, i) = {}) =>
                          lookupRes = None
\* index 8 is the top index of the later entry {5, 3, B} and inside the
\* earlier entry {0, 10, A}: it resolves to B with offset 3
C21_Witness ==
    /\ layout = <<OverlaidLayoutEntry(0, 10, "A"), OverlaidLayoutEntry(5, 3, "B")>>
    /\ lookupArg = Some([on |-> "layout", i |-> 8])
    /\ lookupRes = Some(<<"B", 3>>)
\* index 9 is one past the top index of {5, 3, B} and resolves to A
C21_PastTopWitness ==
    /\ layout = <<OverlaidLayoutEntry(0, 10, "A"), OverlaidLayoutEntry(5, 3, "B")>>
    /\ lookupArg = Some([on |-> "layout", i |-> 9])
    /\ lookupRes = Some(<<"A", 9>>)

\* C6: valid_range is None for the empty layout and otherwise the pair
\* (least base, greatest base + size) over all entries, whatever their order
\* and whatever gaps lie between them.
C6_ValidRange ==
    rangeRes[1] = "set" =>
        IF Len(layout) = 0 THEN rangeRes[2] = None
        ELSE rangeRes[2] =
                 Some(<<SetMin({layout[n].base : n \in 1..Len(layout)}),
                        SetMax({layout[n].base + layout[n].size : n \in 1..Len(layout)})>>)
C6_Witness ==
    /\ layout = <<OverlaidLayoutEntry(5, 10, "B"), OverlaidLayoutEntry(0, 3, "A")>>
    /\ rangeRes = <<"set", Some(<<0, 15>>)>>

\* C7: the detected gfx layout is [CRE at 0x280, SCE at 0] in that order (the
\* SCE entry alone without a CRE); every index the SCE entry matches resolves
\* to (SCE, index), and the CRE is the answer only where the SCE entry does
\* not match.
C7_GfxLayout ==
    IsSome(loaded) =>
        LET sce == Unwrap(selected).sce
            cre == Unwrap(selected).cre
            gfx == Unwrap(loaded).gfx
        IN  /\ IsSome(cre) =>
                   gfx = <<[base |-> 640, size |-> Unwrap(cre).gfx_len, tileset |-> Unwrap(cre)],
                           [base |-> 0, size |-> sce.gfx_len, tileset |-> sce]>>
            /\ ~IsSome(cre) =>
                   gfx = <<[base |-> 0, size |-> sce.gfx_len, tileset |-> sce]>>
            /\ (IsSome(lookupArg) /\ Unwrap(lookupArg).on = "gfx") =>
                   LET i == Unwrap(lookupArg).i
                   IN  IF i <= sce.gfx_len
                       THEN lookupRes = Some(<<sce, i>>)
                       ELSE IF IsSome(cre) /\ i >= 640 /\ i - 640 <= Unwrap(cre).gfx_len
                       THEN lookupRes = Some(<<Unwrap(cre), i - 640>>)
                       ELSE lookupRes = None
C7_Witness ==
    /\ IsSome(loaded)
    /\ Unwrap(selected).sce.gfx_len = 768
    /\ Unwrap(selected).cre = Some(Tileset("cre", 384, 256))
    /\ lookupArg = Some([on |-> "gfx", i |-> 641])
    /\ lookupRes = Some(<<Unwrap(selected).sce, 641>>)

\* C8: with more than 0x300 SCE tiletable entries the tiletable layout is the
\* single entry {base 0, SCE} and the CRE table is left out; with 0x300 or
\* fewer it is [CRE at base 0 (when a CRE is selected), SCE at base 0x100].
C8_TiletableLayout ==
    IsSome(loaded) =>
        LET sce == Unwrap(selected).sce
            cre == Unwrap(selected).cre
            ttb == Unwrap(loaded).tiletable
            sce_at(base) == [base |-> base, size |-> sce.tiletable_len, tileset |-> sce]
        IN  IF sce.tiletable_len > 768
            THEN ttb = <<sce_at(0)>>
            ELSE IF IsSome(cre)
            THEN ttb = <<[base |-> 0, size |-> Unwrap(cre).tiletable_len,
                          tileset |-> Unwrap(cre)], sce_at(256)>>
            ELSE ttb = <<sce_at(256)>>
C8_Witness ==
    /\ IsSome(loaded)
    /\ Unwrap(selected).sce.tiletable_len = 768
    /\ IsSome(Unwrap(selected).cre)
    /\ Len(Unwrap(loaded).tiletable) = 2
    /\ Unwrap(loaded).tiletable[2].base = 256

(***************************************************************************)
(* Claims about the colour expansion, checked under SpecColor.             *)
(***************************************************************************)

\* C9: each 5-bit channel c of a colour expands to (c*255 + 15) / 31; the
\* result stays within 0..255, 0 maps to 0, 31 maps to 255, and no smaller
\* channel value expands to a larger result.
C9_Expand ==
    IsSome(rgb8) =>
        \A n \in 1..3 :
            LET c == (color \div (32 ^ (n - 1))) % 32
                out == Unwrap(rgb8)[n]
            IN  /\ out = (c * 255 + 15) \div 31
                /\ out \in 0..255
                /\ c = 0 => out = 0
                /\ c = 31 => out = 255
                /\ \A d \in 0..c : (d * 255 + 15) \div 31 <= out
C9_Witness ==
    /\ color = 31 + 16 * 1024
    /\ rgb8 = Some(<<255, 0, 132>>)

(***************************************************************************)
(* Claims about tile decoding, checked under SpecTile.                     *)
(***************************************************************************)

\* C10: the pixels written with flips (h, v) are the pixels written without
\* flips, with the columns reversed when h is set and the rows reversed when
\* v is set; with both set, reversing both axes gives back the unflipped
\* pixels.  The palette has 16 distinct colours, so equal pixels are equal
\* indices.
C10_FlipSymmetry ==
    \A fl \in DOMAIN images :
        <<FALSE, FALSE>> \in DOMAIN images =>
            LET plain == images[<<FALSE, FALSE>>]
            IN  \A y \in 0..7, x \in 0..7 :
                    images[fl][y][x] =
                        plain[IF fl[2] THEN 7 - y ELSE y][IF fl[1] THEN 7 - x ELSE x]
C10_Witness ==
    /\ <<FALSE, FALSE>> \in DOMAIN images
    /\ <<TRUE, TRUE>> \in DOMAIN images
    /\ images[<<TRUE, TRUE>>] # images[<<FALSE, FALSE>>]
    /\ images[<<TRUE, TRUE>>][7][7] = images[<<FALSE, FALSE>>][0][0]

(***************************************************************************)
(* Claims about writing over an image, checked under SpecDraw.             *)
(***************************************************************************)
\* the 4-bit index of the pixel in row r, column c of a tile: bit 7 - c of
\* the row's four bitplane bytes, plane p weighing 2^p
IndexAt(t, r, c) ==
    LET bit(b) == (b \div 2^(7 - c)) % 2
    IN  bit(t[2 * r + 1]) + 2 * bit(t[2 * r + 2])
        + 4 * bit(t[2 * r + 17]) + 8 * bit(t[2 * r + 18])

\* the index shown at output pixel (y, x) under flips fl
ShownIndex(t, fl, y, x) ==
    IndexAt(t, IF fl[2] THEN 7 - y ELSE y, IF fl[1] THEN 7 - x ELSE x)

\* C11 (as claimed): with transparency requested, a pixel whose index is 0
\* keeps the colour the output had, for every flip combination, through
\* write_to_image and through write_to_image_flippable alike; every other
\* pixel, and every pixel without transparency, gets palette[index].
C11_Transparency ==
    IsSome(drawn) =>
        LET d == Unwrap(drawn)
        IN  \A y \in 0..7, x \in 0..7 :
                LET index == ShownIndex(tile, d.flips, y, x)
                IN  d.pixels[y][x] =
                        IF d.transparency /\ index = 0 THEN Backdrop[y][x]
                        ELSE TilePalette[index]

\* C11, the part the code keeps: the same statement for write_to_image called
\* directly, and for write_to_image_flippable without transparency.
C11_DirectTransparency ==
    (IsSome(drawn) /\ (Unwrap(drawn).via = "write_to_image"
                       \/ ~Unwrap(drawn).transparency)) =>
        LET d == Unwrap(drawn)
        IN  \A y \in 0..7, x \in 0..7 :
                LET index == ShownIndex(tile, d.flips, y, x)
                IN  d.pixels[y][x] =
                        IF d.transparency /\ index = 0 THEN Backdrop[y][x]
                        ELSE TilePalette[index]
C11_DirectWitness ==
    /\ IsSome(drawn)
    /\ Unwrap(drawn).via = "write_to_image"
    /\ Unwrap(drawn).transparency
    /\ Unwrap(drawn).flips = <<TRUE, TRUE>>
    /\ \E y \in 0..7, x \in 0..7 : Unwrap(drawn).pixels[y][x] = Backdrop[y][x]
    /\ \E y \in 0..7, x \in 0..7 : Unwrap(drawn).pixels[y][x] # Backdrop[y][x]

(***************************************************************************)
(* Claims about the block grid, checked under SpecBlock.                   *)
(***************************************************************************)

\* C12: get(x, y) takes the block at (x/2, y/2) and its four subtiles, picks
\* subtile ((y%2) XOR block.v_flip)*2 + ((x%2) XOR block.h_flip) and returns
\* it with each flip XORed with the block's flip and the tile id, palette and
\* priority as they were; it returns None exactly when the grid has no block
\* there or the tiletable has no entry for the block.  A block with h_flip
\* only, asked at subtile position (1, 0), gives source subtile (0, 0).
C12_BlockSubtile ==
    IsSome(cell) =>
        LET x == Unwrap(cell)[1]
            y == Unwrap(cell)[2]
            block == blocks.cells[<<x \div 2, y \div 2>>]
            b == Unwrap(block)
            bh == (b \div 2^11) % 2
            bv == (b \div 2^12) % 2
            id == b % 2^10
            src == tiletable[id + 1][(((y % 2) + bv) % 2) * 2 + (((x % 2) + bh) % 2) + 1]
            out == Unwrap(subtile)
        IN  IF block = None \/ id >= Len(tiletable) THEN subtile = None
            ELSE /\ IsSome(subtile)
                 /\ out % 2^14 = src % 2^14
                 /\ (out \div 2^14) % 2 = ((src \div 2^14) + bh) % 2
                 /\ (out \div 2^15) % 2 = ((src \div 2^15) + bv) % 2
                 /\ (bh = 1 /\ bv = 0 /\ x % 2 = 1 /\ y % 2 = 0) =>
                        /\ out % 2^14 = tiletable[id + 1][1] % 2^14
                        /\ h_flip(out) = ~h_flip(tiletable[id + 1][1])
C12_Witness ==
    /\ IsSome(cell)
    /\ Unwrap(cell)[1] % 2 = 1 /\ Unwrap(cell)[2] % 2 = 0
    /\ LET block == blocks.cells[<<Unwrap(cell)[1] \div 2, Unwrap(cell)[2] \div 2>>]
       IN  /\ IsSome(block)
           /\ block_h_flip(Unwrap(block)) /\ ~block_v_flip(Unwrap(block))
           /\ block_id(Unwrap(block)) = 1
           /\ IsSome(subtile)
           /\ tile_id(Unwrap(subtile)) = tile_id(tiletable[2][1])
           /\ h_flip(Unwrap(subtile)) # h_flip(tiletable[2][1])

(***************************************************************************)
(* Claims about compositing, checked under SpecCompose.                    *)
(***************************************************************************)
\* the pixels of the 8x8 cell of subtile (sx, sy) of block (bx, by) in a
\* row-major buffer `width` pixels wide, as rows of columns
CellPixels(pixels, width, bx, by, sx, sy) ==
    [y \in 0..7 |-> [x \in 0..7 |->
        pixels[(16 * by + 8 * sy + y) * width + (16 * bx + 8 * sx + x)]]]

\* the tiletable word shown at subtile (sx, sy) of a block: the word at the
\* position mirrored by the block's flips, its own flips XORed with them
ShownSubtile(entry, block, sx, sy) ==
    LET bh == (block \div 2^11) % 2
        bv == (block \div 2^12) % 2
        w == entry[((sy + bv) % 2) * 2 + ((sx + bh) % 2) + 1]
    IN  [tile |-> w % 2^10,
         pal |-> (w \div 2^10) % 8,
         flips |-> <<((w \div 2^14) + bh) % 2 = 1, ((w \div 2^15) + bv) % 2 = 1>>]

C14_RedTile ==
    (/\ IsSome(sheet)
     /\ sheetTiles = <<[i \in 1..32 |-> 0]>>
     /\ perRow = 1
     /\ sheetPalette[1] % 2^15 = 31) =>
        /\ ~Unwrap(sheet).panicked
        /\ Unwrap(sheet).size = <<8, 8>>
        /\ DOMAIN Unwrap(sheet).pixels = 0..63
        /\ \A q \in 0..63 : Unwrap(sheet).pixels[q] = <<255, 0, 0, 255>>
C14_Witness ==
    /\ IsSome(sheet)
    /\ sheetTiles = <<ZeroTile>>
    /\ perRow = 1
    /\ sheetPalette[1] = 31
    /\ Unwrap(sheet).size = <<8, 8>>
    /\ Unwrap(sheet).pixels[63] = <<255, 0, 0, 255>>

(***************************************************************************)
(* Claims about palette truncation, checked under SpecPalette.             *)
(***************************************************************************)

\* C15 (as claimed): truncate_checked(new_len) returns Ok exactly when every
\* entry at an index >= new_len is the zero colour; after Ok the palette is
\* what it was up to new_len, after Err it is what it was.
C15_TruncateChecked ==
    IsSome(truncated) =>
        LET t == Unwrap(truncated)
            removable == \A i \in 1..Len(t.before) : i > t.new_len => t.before[i] = 0
        IN  /\ (t.result = "Ok") <=> removable
            /\ t.result = "Ok" =>
                   colors = [i \in 1..Min(t.new_len, Len(t.before)) |-> t.before[i]]
            /\ t.result = "Err" => colors = t.before

\* C15, the part the code keeps: Ok is returned only when every removed entry
\* is zero, and then the palette is its first new_len entries; Err leaves the
\* palette as it was; a non-zero colour is never dropped.
C15_NeverDropsNonZero ==
    IsSome(truncated) =>
        LET t == Unwrap(truncated)
        IN  /\ t.result = "Ok" =>
                   /\ t.new_len <= Len(t.before)
                   /\ \A i \in 1..Len(t.before) : i > t.new_len => t.before[i] = 0
                   /\ colors = SubSeq(t.before, 1, t.new_len)
            /\ t.result = "Err" => colors = t.before
            /\ \A i \in 1..Len(t.before) :
                   t.before[i] # 0 => (i <= Len(colors) /\ colors[i] = t.before[i])

(***************************************************************************)
(* Claims about tile reference packing, checked under SpecEntry.           *)
(***************************************************************************)

\* C16: for_tile(t) is the entry with tile id t mod 1024, palette 0 and no
\* priority or flip bit, for every t (no error above 1023); with_palette(p)
\* for p in 0..7 gives palette p and leaves the tile id, priority, h_flip and
\* v_flip as they were.
C16_TilePacking ==
    IsSome(made) =>
        LET m == Unwrap(made)
            e == Unwrap(tilemapEntry)
            old == Unwrap(m.before)
        IN  /\ m.op = "for_tile" =>
                   /\ ~m.panicked
                   /\ e = m.arg % 1024
                   /\ tile_id(e) = m.arg % 1024
                   /\ palette_of(e) = 0
                   /\ ~priority(e) /\ ~h_flip(e) /\ ~v_flip(e)
            /\ (m.op = "with_palette" /\ m.arg \in 0..7) =>
                   /\ ~m.panicked
                   /\ (e \div 2^10) % 8 = m.arg
                   /\ e % 2^10 = old % 2^10
                   /\ e \div 2^13 = old \div 2^13
C16_Witness ==
    /\ IsSome(made)
    /\ Unwrap(made).op = "with_palette"
    /\ Unwrap(made).arg = 3
    /\ Unwrap(made).before = Some(1023 + 2^10 * 5 + 2^13 + 2^15)
    /\ tilemapEntry = Some(1023 + 2^10 * 3 + 2^13 + 2^15)
C16_TruncationWitness ==
    /\ IsSome(made)
    /\ Unwrap(made).op = "for_tile"
    /\ Unwrap(made).arg = 1025
    /\ tilemapEntry = Some(1)

(***************************************************************************)
(* Claims about HexValue::from_str, checked under SpecHex.                 *)
(***************************************************************************)
\* the number a string of hex digits (at most 6) writes
RECURSIVE HexNumber(_)
HexNumber(ds) ==
    IF Len(ds) = 0 THEN 0
    ELSE 16 * HexNumber(SubSeq(ds, 1, Len(ds) - 1)) + HexDigits[ds[Len(ds)]]
AllHexDigits(ds) == \A n \in 1..Len(ds) : ds[n] \in DOMAIN HexDigits

\* what the claim gives for a remainder: its hex digits ds after an optional sign
ClaimedHexValue(ds) ==
    IF Len(ds) <= 2 THEN Ok(Byte(HexNumber(ds)))
    ELSE IF Len(ds) <= 4 THEN Ok(Word(HexNumber(ds)))
    ELSE IF Len(ds) <= 6 THEN Ok(Long(HexNumber(ds)))
    ELSE Err("PosOverflow")

\* C17 (as claimed): after one optional leading '$' the remainder is parsed
\* as hexadecimal and the variant follows the number of digits: 1-2 digits
\* Byte, 3-4 Word, 5-6 Long, 7 or more the error PosOverflow; an empty
\* remainder is the error Empty; a string without the prefix parses to what
\* it parses to with the prefix in front.
C17_FromStr ==
    IsSome(parsed) =>
        LET rest == IF Len(text) > 0 /\ text[1] = "$" THEN Tail(text) ELSE text
            ds == IF Len(rest) > 0 /\ rest[1] = "+" THEN Tail(rest) ELSE rest
        IN  /\ rest = <<>> => Unwrap(parsed) = Err("Empty")
            /\ (Len(ds) > 0 /\ AllHexDigits(ds)) => Unwrap(parsed) = ClaimedHexValue(ds)
            /\ (Len(text) < MaxStrLen /\ (text = <<>> \/ text[1] # "$")) =>
                   HexValue_from_str(<<"$">> \o text) = Unwrap(parsed)

\* C17, the part the code keeps: the same for a remainder that is hex digits
\* only, without a sign.
C17_FromStrDigitsOnly ==
    IsSome(parsed) =>
        LET rest == IF Len(text) > 0 /\ text[1] = "$" THEN Tail(text) ELSE text
        IN  /\ rest = <<>> => Unwrap(parsed) = Err("Empty")
            /\ (Len(rest) > 0 /\ AllHexDigits(rest)) =>
                   Unwrap(parsed) = ClaimedHexValue(rest)
            /\ (Len(text) < MaxStrLen /\ (text = <<>> \/ text[1] # "$")) =>
                   HexValue_from_str(<<"$">> \o text) = Unwrap(parsed)

(***************************************************************************)
(* Claims about Promise, checked under SpecPromise.                        *)
(***************************************************************************)
\* the launched future, while its task has not finished
UnfinishedFuture == IsSome(future) /\ Unwrap(future).task = "Pending"
\* the outputs a future can produce
OutputsOf(id) == {[from |-> id, out |-> out] : out \in {"Ok", "Err"}}

ByteBit(b, k) == (b \div 2^k) % 2

\* C22: decoding matches the per-bit reference.  spread_u8_x4 moves bit k of
\* its byte to bit 4k and sets no other bit; decode_bitplanes puts bit k of
\* bitplane p at bit 4k + p; row r takes tile bytes 2r, 2r+1, 16+2r, 17+2r;
\* and unflipped pixel x of the row has index sum over p of
\* (bit 7-x of bitplane p) * 2^p.
C22_PerBitReference ==
    IsSome(decoded) =>
        LET d == Unwrap(decoded)
        IN  /\ d.call = "spread_u8_x4" =>
                  d.word = {4 * k : k \in {k \in 0..7 : ByteBit(d.arg[1], k) = 1}}
            /\ d.call = "decode_bitplanes" =>
                  d.word = {n \in 0..31 : ByteBit(d.arg[(n % 4) + 1], n \div 4) = 1}
            /\ d.call = "row" =>
                  LET r == d.arg[1]
                  IN  /\ SubSeq(d.arg, 2, 5) =
                            <<planeTile[2 * r + 1], planeTile[2 * r + 2],
                              planeTile[16 + 2 * r + 1], planeTile[17 + 2 * r + 1]>>
                      /\ \A x \in 0..7 :
                            d.indices[x + 1] =
                                ByteBit(d.arg[2], 7 - x) + 2 * ByteBit(d.arg[3], 7 - x)
                                + 4 * ByteBit(d.arg[4], 7 - x) + 8 * ByteBit(d.arg[5], 7 - x)
\* a row whose bitplanes 2 and 3 differ was decoded
C22_Witness ==
    /\ IsSome(decoded)
    /\ Unwrap(decoded).call = "row"
    /\ Unwrap(decoded).arg[4] # Unwrap(decoded).arg[5]
    /\ \E x \in 1..8 : Unwrap(decoded).indices[x] \in 4..11

(***************************************************************************)
(* Claims about both compositors, checked under SpecComposites.            *)
(***************************************************************************)
\* a buffer of n pixels, no two alike and none a colour a palette can hold
MarkedPixels(n) == [q \in 0..(n - 1) |-> <<3, q \div 256, q % 256, 255>>]
\* whether buffer index q lies in tile-grid cell (cx, cy) of an image
InCell(q, width_px, cx, cy) ==
    (q % width_px) \div 8 = cx /\ (q \div width_px) \div 8 = cy
\* the colour tiles_to_image shows for index i
SheetColor(i) == Color32_from(sheetPalette[i + 1])
\* the colour tiletable_to_image shows for index i of palette line `line`
ComposeColor(line, i) ==
    IF 16 * line + i < Len(source.palette)
    THEN Color32_from(source.palette[16 * line + i + 1])
    ELSE TRANSPARENT

\* C23: strided placement.  Pixel (px, py) of the tile drawn at tile-grid
\* cell (cx, cy) is at buffer index (cy*8 + py) * width_px + cx*8 + px, in
\* the returned image and after the drawing of that one tile alike; drawing
\* one tile over any buffer changes the 8 rows of 8 pixels of its cell and no
\* pixel outside it.
C23_StridedPlacement ==
    /\ IsSome(sheet) =>
          LET width_px == 8 * perRow
              n_px == Cardinality(DOMAIN Unwrap(sheet).pixels)
              before == MarkedPixels(n_px)
              palette_c32 == [i \in 0..15 |-> SheetColor(i)]
          IN  \A n \in 1..Len(sheetTiles) :
                 LET cx == (n - 1) % perRow
                     cy == (n - 1) \div perRow
                     after == paint_tile(sheetTiles, palette_c32, before, perRow, n)
                 IN  /\ DOMAIN after = DOMAIN before
                     /\ \A q \in DOMAIN before :
                           (after[q] # before[q]) <=> InCell(q, width_px, cx, cy)
                     /\ \A px \in 0..7, py \in 0..7 :
                           LET q == (cy * 8 + py) * width_px + cx * 8 + px
                               c == SheetColor(IndexAt(sheetTiles[n], py, px))
                           IN  after[q] = c /\ Unwrap(sheet).pixels[q] = c
    /\ IsSome(composed) =>
          LET w == grid.dimensions[1]
              h == grid.dimensions[2]
              width_px == 16 * w
              before == MarkedPixels(256 * w * h)
          IN  \A bx \in 0..(w - 1), by \in 0..(h - 1), sx \in 0..1, sy \in 0..1 :
                 LET cx == 2 * bx + sx
                     cy == 2 * by + sy
                     block == grid.cells[<<bx, by>>]
                     id == Unwrap(block) % 2^10
                     shown == ShownSubtile(source.tiletable[id + 1], Unwrap(block), sx, sy)
                     after == paint_subtile(source, grid, before, 2 * w, <<by, bx, sy, sx>>)
                 IN  /\ DOMAIN after = DOMAIN before
                     /\ IF block = None \/ id >= Len(source.tiletable)
                        THEN after = before
                        ELSE IF shown.tile >= Len(source.gfx)
                        THEN after = before
                        ELSE /\ \A q \in DOMAIN before :
                                   (after[q] # before[q]) <=> InCell(q, width_px, cx, cy)
                             /\ \A px \in 0..7, py \in 0..7 :
                                   LET q == (cy * 8 + py) * width_px + cx * 8 + px
                                       c == ComposeColor(shown.pal,
                                                ShownIndex(source.gfx[shown.tile + 1],
                                                           shown.flips, py, px))
                                   IN  after[q] = c /\ Unwrap(composed).pixels[q] = c
\* a tile list of three tiles two to a row, composited: the second tile, a
\* tile with every index, is in cell (1, 0)
C23_Witness ==
    /\ IsSome(sheet)
    /\ perRow = 2
    /\ Len(sheetTiles) = 3
    /\ sheetTiles[2] = TileWith(0, <<27, 128, 255, 1>>)
    /\ Unwrap(sheet).pixels[8] = SheetColor(IndexAt(sheetTiles[2], 0, 0))
    /\ Unwrap(sheet).pixels[15] = SheetColor(IndexAt(sheetTiles[2], 0, 7))
\* a 2x2-block grid composited with a tile drawn at cell (3, 3)
C23_BlockWitness ==
    /\ IsSome(composed)
    /\ grid.dimensions = <<2, 2>>
    /\ IsSome(grid.cells[<<1, 1>>])
    /\ block_id(Unwrap(grid.cells[<<1, 1>>])) < Len(source.tiletable)
    /\ \A px \in 0..7, py \in 0..7 :
          Unwrap(composed).pixels[(24 + py) * 32 + 24 + px][4] = 255

\* C24: the shape of the output.  tiles_to_image returns the size
\* [tiles_per_row * 8, ceil(number of tiles / tiles_per_row) * 8] and
\* tiletable_to_image the size [16 * blocks per row, 16 * block rows]; the
\* buffer has exactly width * height pixels, indexed row by row; every pixel
\* of a cell in which no tile was drawn is Color32::TRANSPARENT.
C24_BufferShape ==
    /\ IsSome(sheet) =>
          LET r == Unwrap(sheet)
              grid_height == CHOOSE n \in 0..Len(sheetTiles) :
                                 /\ n * perRow >= Len(sheetTiles)
                                 /\ (n - 1) * perRow < Len(sheetTiles)
          IN  /\ ~r.panicked
              /\ r.size = <<perRow * 8, grid_height * 8>>
              /\ DOMAIN r.pixels = 0..(r.size[1] * r.size[2] - 1)
              /\ \A q \in DOMAIN r.pixels :
                    ((q \div r.size[1]) \div 8) * perRow + ((q % r.size[1]) \div 8)
                        >= Len(sheetTiles)
                    => r.pixels[q] = TRANSPARENT
    /\ IsSome(composed) =>
          LET r == Unwrap(composed)
              w == grid.dimensions[1]
              h == grid.dimensions[2]
          IN  /\ ~r.panicked
              /\ r.size = <<16 * w, 16 * h>>
              /\ DOMAIN r.pixels = 0..(r.size[1] * r.size[2] - 1)
              /\ \A q \in DOMAIN r.pixels :
                    LET cx == (q % r.size[1]) \div 8
                        cy == (q \div r.size[1]) \div 8
                        block == grid.cells[<<cx \div 2, cy \div 2>>]
                        id == Unwrap(block) % 2^10
                        shown == ShownSubtile(source.tiletable[id + 1], Unwrap(block),
                                              cx % 2, cy % 2)
                        drawn_here == /\ block # None
                                      /\ id < Len(source.tiletable)
                                      /\ shown.tile < Len(source.gfx)
                    IN  ~drawn_here => r.pixels[q] = TRANSPARENT
\* three tiles two to a row: a 16 x 16 image whose fourth cell is transparent
\* next to an opaque third cell
C24_Witness ==
    /\ IsSome(sheet)
    /\ perRow = 2
    /\ Len(sheetTiles) = 3
    /\ Unwrap(sheet).size = <<16, 16>>
    /\ DOMAIN Unwrap(sheet).pixels = 0..255
    /\ Unwrap(sheet).pixels[8 * 16 + 7][4] = 255
    /\ \A py \in 0..7, px \in 0..7 : Unwrap(sheet).pixels[(8 + py) * 16 + 8 + px] = TRANSPARENT
\* a block grid of one column and two rows with an empty cell: 16 x 32
C24_BlockWitness ==
    /\ IsSome(composed)
    /\ grid.dimensions = <<1, 2>>
    /\ Unwrap(composed).size = <<16, 32>>
    /\ \E c \in DOMAIN grid.cells : grid.cells[c] = None
    /\ \E q \in DOMAIN Unwrap(composed).pixels : Unwrap(composed).pixels[q][4] = 255

(***************************************************************************)
(* Claims about the flat preview grids, checked under SpecFlat.            *)
(***************************************************************************)
\* the id, palette and flip bits a synthesized entry carries
FlatEntryFields(m, word) ==
    IF m.of = "gfx"
    THEN [id |-> word % 2^10, palette |-> (word \div 2^10) % 8,
          rest |-> word \div 2^13]
    ELSE [id |-> word % 2^10, palette |-> 0, rest |-> word \div 2^10]

\* C25 (as claimed): a flat model of length len over rows of W reports the
\* dimensions [W, ceil(len / W)]; get(x, y) is None exactly when
\* W*y + x >= len and otherwise an entry whose id is W*y + x, with the
\* model's palette index and no other bit set.
C25_FlatGrid ==
    IsSome(flatRet) =>
        LET c == Unwrap(flatRet)
            W == IF flat.of = "gfx" THEN 16 ELSE 32
        IN  /\ c.call = "dimensions" =>
                  /\ c.value[1] = W
                  /\ c.value[2] * W >= flat.len
                  /\ (c.value[2] - 1) * W < flat.len
            /\ c.call = "get" =>
                  /\ (c.value = None) <=> (W * c.y + c.x >= flat.len)
                  /\ c.value # None =>
                        LET e == FlatEntryFields(flat, Unwrap(c.value))
                        IN  /\ e.id = W * c.y + c.x
                            /\ e.palette = flat.palette_index
                            /\ e.rest = 0

\* C25 for the ids a 10-bit field holds: as above, the id of the entry being
\* W*y + x modulo 1024.
C25_FlatGridMod1024 ==
    IsSome(flatRet) =>
        LET c == Unwrap(flatRet)
            W == IF flat.of = "gfx" THEN 16 ELSE 32
        IN  /\ c.call = "dimensions" =>
                  /\ c.value[1] = W
                  /\ c.value[2] * W >= flat.len
                  /\ (c.value[2] - 1) * W < flat.len
            /\ c.call = "get" =>
                  /\ (c.value = None) <=> (W * c.y + c.x >= flat.len)
                  /\ c.value # None =>
                        LET e == FlatEntryFields(flat, Unwrap(c.value))
                        IN  /\ e.id = (W * c.y + c.x) % 1024
                            /\ e.palette = flat.palette_index
                            /\ e.rest = 0
\* get(0, 64) on a FullTilesetGfxModel of 1025 tiles returned the entry of
\* tile 0
C25_AliasWitness ==
    /\ flat = FullTilesetGfxModel(1025, 0)
    /\ IsSome(flatRet)
    /\ Unwrap(flatRet).call = "get"
    /\ Unwrap(flatRet).x = 0
    /\ Unwrap(flatRet).y = 64
    /\ Unwrap(flatRet).value = Some(0)

(***************************************************************************)
(* Claims about palette import, checked under SpecImport.                  *)
(***************************************************************************)
\* C26: the 15-bit colour invariant.  rgb_to_snes of (r, g, b) is
\* (r>>3) | (g>>3)<<5 | (b>>3)<<10, a value below 2^15 whose as_rgb_5bpc
\* channels are [r>>3, g>>3, b>>3], with a warning and never an error when
\* low bits are dropped; as_rgb_5bpc of any 16-bit colour gives three
\* channels in 0..31 and does not depend on bit 15.
C26_FifteenBit ==
    IsSome(importRet) =>
        LET res == Unwrap(importRet)
        IN  /\ importArg.of = "rgb" =>
                  LET r == importArg.v[1] \div 8
                      g == importArg.v[2] \div 8
                      b == importArg.v[3] \div 8
                  IN  /\ res.word = r + 32 * g + 1024 * b
                      /\ res.word < 2^15
                      /\ res.channels = <<r, g, b>>
                      /\ res.warned <=> \E i \in 1..3 : importArg.v[i] % 8 # 0
            /\ importArg.of = "snes" =>
                  /\ \A i \in 1..3 : res.channels[i] \in 0..31
                  /\ res.channels = <<res.word % 32, (res.word \div 32) % 32,
                                      (res.word \div 1024) % 32>>
                  /\ res.channels = as_rgb_5bpc((res.word + 2^15) % 2^16)
\* a triple with low bits in every channel was converted
C26_Witness ==
    /\ importArg = [of |-> "rgb", v |-> <<255, 9, 15>>]
    /\ importRet = Some([word |-> 31 + 32 + 1024, warned |-> TRUE, channels |-> <<31, 1, 1>>])
\* a colour with bit 15 set was read
C26_Bit15Witness ==
    /\ importArg = [of |-> "snes", v |-> <<2^15 + 31>>]
    /\ IsSome(importRet)
    /\ Unwrap(importRet).channels = <<31, 0, 0>>

(***************************************************************************)
(* Claims about Application and its StartupDialog, checked under SpecApp.  *)
(***************************************************************************)
\* C27: after every update the state is NoOpenProject, LoadingProject or
\* ProjectLoaded, never Invalid.  An update changes the state only from
\* NoOpenProject to LoadingProject (the dialog closed), from LoadingProject
\* to ProjectLoaded (the load gave Ok) or from LoadingProject to
\* NoOpenProject with the error message (the load gave Err); LoadingProject
\* is kept while the promise has no result and ProjectLoaded is never left.
C27_StateMachine ==
    /\ appState \in {"NoOpenProject", "LoadingProject", "ProjectLoaded"}
    /\ (appState = "NoOpenProject") <=> IsSome(dialog)
    /\ (appState = "LoadingProject") <=> IsSome(loading)
    /\ IsSome(appLast) =>
          LET u == Unwrap(appLast)
          IN  /\ appState = u.to
              /\ u.from = "NoOpenProject" =>
                    u.to = IF u.input \in {"open", "dismiss"} THEN "LoadingProject"
                           ELSE "NoOpenProject"
              /\ u.from = "LoadingProject" =>
                    /\ u.project = None => u.to = "LoadingProject"
                    /\ (IsSome(u.project) /\ Unwrap(u.project).out = "Ok") =>
                           u.to = "ProjectLoaded"
                    /\ (IsSome(u.project) /\ Unwrap(u.project).out = "Err") =>
                           /\ u.to = "NoOpenProject"
                           /\ IsSome(Unwrap(dialog).path_validation_result.last_result)
                           /\ Unwrap(Unwrap(dialog).path_validation_result.last_result).out
                                  = "Err"
              /\ u.from = "ProjectLoaded" => u.to = "ProjectLoaded"
\* a load that failed brought the application back to the dialog
C27_Witness ==
    /\ appState = "NoOpenProject"
    /\ IsSome(appLast)
    /\ Unwrap(appLast).from = "LoadingProject"
    /\ IsSome(Unwrap(appLast).project)
    /\ Unwrap(Unwrap(appLast).project).out = "Err"
\* a project was loaded and a later update kept it
C27_LoadedWitness ==
    /\ appState = "ProjectLoaded"
    /\ IsSome(appLast)
    /\ Unwrap(appLast).from = "ProjectLoaded"

\* C28: path_validation_result.response() reports nothing of an earlier
\* launch or of set_response while a later-launched validation is pending,
\* and the Open button is enabled only when the validation of the path now
\* in the field has completed with Ok.
C28_NoStaleResult ==
    (IsSome(appLast) /\ Unwrap(appLast).from = "NoOpenProject") =>
        LET u == Unwrap(appLast)
        IN  /\ u.pending => u.shown = None
            /\ u.open_enabled =>
                  /\ ~u.pending
                  /\ Unwrap(u.shown).from = u.path_shown
                  /\ validate_smart_project_path(u.path_shown) = "Ok"
\* the frame enabled Open on the Ok of the path entered before, while the
\* validation of the path now in the field had not finished
C28_StaleOpenWitness ==
    /\ IsSome(appLast)
    /\ Unwrap(appLast).open_enabled
    /\ Unwrap(appLast).pending
    /\ Unwrap(appLast).path_shown = "bad"
    /\ Unwrap(Unwrap(appLast).shown).from = "good"
\* the Open click of such a frame started loading the path that was never
\* validated
C28_LoadsUnvalidatedWitness ==
    /\ appState = "LoadingProject"
    /\ IsSome(appLast)
    /\ Unwrap(appLast).input = "open"
    /\ Unwrap(appLast).pending
    /\ Unwrap(Unwrap(loading).future).id = "bad"

\* C29: no two entries of open_editors have the same stable_id.  In a show
\* whose side-panel click asks for an editor that is already open,
\* open_editor leaves the list as it was and only raises the existing
\* window; otherwise it appends the new editor.  The editors whose window
\* reports closed are removed and the others keep their order.
C29_UniqueEditors ==
    /\ \A i, j \in 1..Len(open_editors) :
           stable_id(open_editors[i]) = stable_id(open_editors[j]) => i = j
    /\ IsSome(showLast) =>
          LET u == Unwrap(showLast)
              open_before == {stable_id(u.before[i]) : i \in 1..Len(u.before)}
              stays(id) == id \notin u.input.closing
          IN  /\ IsSome(u.input.clicked) =>
                    LET editor == Unwrap(u.input.clicked)
                    IN  IF stable_id(editor) \in open_before
                        THEN /\ u.after_open = u.before
                             /\ u.moved_to_top = Some(stable_id(editor))
                        ELSE /\ u.after_open = Append(u.before, editor)
                             /\ u.moved_to_top = None
              /\ u.input.clicked = None => u.after_open = u.before
              /\ stable_ids(open_editors) = SelectSeq(stable_ids(u.after_open), stays)
\* a tileset editor with its slider moved was open, the side panel asked for
\* the same tileset again, and the first of three windows closed in that frame
C29_Witness ==
    /\ IsSome(showLast)
    /\ Len(Unwrap(showLast).before) = 3
    /\ IsSome(Unwrap(showLast).input.clicked)
    /\ Unwrap(showLast).moved_to_top = Some(stable_id(Unwrap(Unwrap(showLast).input.clicked)))
    /\ \E i \in 1..3 : /\ Unwrap(showLast).before[i].pal_line = 1
                       /\ stable_id(Unwrap(showLast).before[i])
                              = stable_id(Unwrap(Unwrap(showLast).input.clicked))
    /\ Unwrap(showLast).input.closing = {stable_id(Unwrap(showLast).before[1])}
    /\ Len(open_editors) = 2

(***************************************************************************)
(* The two block-flip implementations, checked under SpecBlock.            *)
(***************************************************************************)
\* C30: for every tiletable entry and every combination of the block's
\* h_flip and v_flip, the tile reference BlockTilemapModel::get(2*bx + sx,
\* 2*by + sy) returns is the one at position sy*2 + sx of the block entry
\* that tiletable_to_image has swapped and toggled.
C30_FlipsAgree ==
    IsSome(cell) =>
        LET x == Unwrap(cell)[1]
            y == Unwrap(cell)[2]
            block == grid_get(blocks, x \div 2, y \div 2)
            entry == IF IsSome(block) THEN tiletable_get(tiletable, block_id(Unwrap(block)))
                     ELSE None
        IN  IF IsSome(block) /\ IsSome(entry)
            THEN subtile = Some(flipped_block_entry(Unwrap(entry), Unwrap(block))
                                    [(y % 2) * 2 + (x % 2) + 1])
            ELSE subtile = None
\* get was asked for the lower left subtile of a block flipped both ways and
\* returned the entry's upper right subtile with both of its flips toggled
C30_Witness ==
    /\ IsSome(cell)
    /\ Unwrap(cell)[1] % 2 = 0
    /\ Unwrap(cell)[2] % 2 = 1
    /\ LET block == grid_get(blocks, Unwrap(cell)[1] \div 2, Unwrap(cell)[2] \div 2)
       IN  /\ IsSome(block)
           /\ block_h_flip(Unwrap(block))
           /\ block_v_flip(Unwrap(block))
           /\ block_id(Unwrap(block)) < Len(tiletable)
           /\ subtile = Some(toggle_bit(toggle_bit(
                              tiletable[block_id(Unwrap(block)) + 1][2], 14), 15))
\* the same for a block flipped horizontally only
C30_HFlipWitness ==
    /\ IsSome(cell)
    /\ Unwrap(cell)[1] % 2 = 0
    /\ Unwrap(cell)[2] % 2 = 1
    /\ LET block == grid_get(blocks, Unwrap(cell)[1] \div 2, Unwrap(cell)[2] \div 2)
       IN  /\ IsSome(block)
           /\ block_h_flip(Unwrap(block))
           /\ ~block_v_flip(Unwrap(block))
           /\ block_id(Unwrap(block)) < Len(tiletable)
           /\ subtile = Some(toggle_bit(tiletable[block_id(Unwrap(block)) + 1][4], 14))
====
